---------------------------- MODULE Spec2Model ----------------------------
(***************************************************************************)
(* State-machine model of the trading bot: the in-memory position store   *)
(* (core/state.py), the trade executor's buy and sell flows                *)
(* (core/executor.py), the entry guard of the strategy (core/strategy.py)  *)
(* and the WebSocket listener (core/listener.py).                          *)
(*                                                                         *)
(* Prices and percentages are Python floats in the source.  They are       *)
(* modelled as exact fractions <<n, d>> with d > 0 in lowest terms, so     *)
(* that (exit - entry) / entry * 100 is computed, not assumed.  SOL        *)
(* amounts are counted in lamports (1 SOL = 10^9 lamports).                *)
(***************************************************************************)
EXTENDS Integers, Sequences, FiniteSets, TLC

VARIABLES
    positions,          \* BotState.positions: token -> Position
    tracked_tokens,     \* BotState.tracked_tokens
    total_trades,       \* BotState.total_trades
    successful_sells,   \* BotState.successful_sells
    last,               \* the last call made and what it returned
    copy_trading_enabled, \* config.copy_trading.enabled
    running,            \* SolanaListener.running
    ws_url,             \* SolanaListener.ws_url: the selected endpoint
    websocket,          \* SolanaListener.websocket: "none", "open" or "closed"
    reconnect_count,    \* SolanaListener.reconnect_count
    subscriptions,      \* SolanaListener.subscriptions: key -> subscription id
    pc,                 \* where the task running listen() is
    inbox,              \* frames the server sent on the connection, not yet read
    conns,              \* connections the server has accepted so far
    server_subscribed,  \* the server streams logs on the current connection
    next_sig,           \* signature of the next log notification
    read,               \* signatures of the log notifications recv() returned
    calls,              \* the log-callback invocations, in order
    delays,             \* sleeps of the reconnects since the last connection
    attempts,           \* endpoints the last _reconnect tried, in order
    bot_running,        \* GMGNBot.running
    mpc,                \* where the task running _monitor_prices() is
    todo                \* tokens of the monitor's for loop not yet visited

store == <<positions, tracked_tokens, total_trades, successful_sells>>

listener == <<copy_trading_enabled, running, ws_url, websocket, reconnect_count,
              subscriptions, pc, inbox, conns, server_subscribed, next_sig,
              read, calls, delays, attempts>>

monitor == <<bot_running, mpc, todo>>

vars == <<positions, tracked_tokens, total_trades, successful_sells, last,
          copy_trading_enabled, running, ws_url, websocket, reconnect_count,
          subscriptions, pc, inbox, conns, server_subscribed, next_sig,
          read, calls, delays, attempts, bot_running, mpc, todo>>

(***************************************************************************)
(* Bounds of the model.                                                    *)
(***************************************************************************)
MaxPrice == 2
MaxTrades == 2
MaxReconnect == 7
MaxConns == 2
MaxNotifs == 2

Tokens == {"T1", "T2"}
Reasons == {"tp", "manual"}

(***************************************************************************)
(* Fractions.                                                              *)
(***************************************************************************)
Abs(x) == IF x < 0 THEN -x ELSE x

RECURSIVE GCD(_, _)
GCD(a, b) == IF b = 0 THEN a ELSE GCD(b, a % b)

Norm(n, d) ==
    IF n = 0 THEN <<0, 1>>
    ELSE LET g == GCD(Abs(n), Abs(d))
             s == IF d < 0 THEN -1 ELSE 1
         IN  <<(s * n) \div g, (s * d) \div g>>

Frac(k) == <<k, 1>>
Positive(q) == q[1] > 0

\* A price the feed can return: 0.0 stands for "unavailable".
Prices == {Frac(p) : p \in 0..MaxPrice}

\* Optional[float] = None
NoPrice == <<0, 0>>

(***************************************************************************)
(* core/state.py                                                           *)
(***************************************************************************)
PositionStatus == {"open", "closed", "pending"}

\* ((price - entry_price) / entry_price) * 100
PnlPercent(price, entry_price) ==
    Norm((price[1] * entry_price[2] - entry_price[1] * price[2]) * 100,
         price[2] * entry_price[1])

\* dataclass Position with its defaults
Position(entry_price, status) ==
    [status       |-> status,
     entry_price  |-> entry_price,
     exit_price   |-> NoPrice,
     exit_reason  |-> "none",
     pnl_percent  |-> Frac(0)]

\* dict assignment d[k] = v
Put(d, k, v) == [x \in DOMAIN d \cup {k} |-> IF x = k THEN v ELSE d[x]]

add_position(token, position) ==
    /\ positions' = Put(positions, token, position)
    /\ tracked_tokens' = tracked_tokens \cup {token}
    /\ total_trades' = total_trades + 1
    /\ UNCHANGED successful_sells

has_open_position(token) ==
    token \in DOMAIN positions /\ positions[token].status = "open"

get_open_positions == {t \in DOMAIN positions : positions[t].status = "open"}

\* Mutant: the ratio is stored, not the percentage.
ClosedPositionRatio(pos, exit_price, reason) ==
    [pos EXCEPT !.status = "closed",
                !.exit_price = exit_price,
                !.exit_reason = reason,
                !.pnl_percent = IF Positive(pos.entry_price)
                                THEN Norm(exit_price[1] * pos.entry_price[2]
                                            - pos.entry_price[1] * exit_price[2],
                                          exit_price[2] * pos.entry_price[1])
                                ELSE @]

\* The position close_position leaves for an OPEN position pos.
ClosedPosition(pos, exit_price, reason) ==
    [pos EXCEPT !.status = "closed",
                !.exit_price = exit_price,
                !.exit_reason = reason,
                !.pnl_percent = IF Positive(pos.entry_price)
                                THEN PnlPercent(exit_price, pos.entry_price)
                                ELSE @]

\* Mutant: the status of the stored position is not looked at.
close_position_any_status(token, exit_price, reason) ==
    IF token \notin DOMAIN positions
    THEN UNCHANGED store
    ELSE LET pos == ClosedPosition(positions[token], exit_price, reason)
         IN  /\ positions' = [positions EXCEPT ![token] = pos]
             /\ successful_sells' = IF Positive(pos.pnl_percent)
                                    THEN successful_sells + 1
                                    ELSE successful_sells
             /\ tracked_tokens' = tracked_tokens \ {token}
             /\ UNCHANGED total_trades

\* Mutant: the token stays in the tracked set.
close_position_keeps_tracking(token, exit_price, reason) ==
    IF token \notin DOMAIN positions
    THEN UNCHANGED store
    ELSE IF positions[token].status # "open"
    THEN UNCHANGED store
    ELSE LET pos == ClosedPosition(positions[token], exit_price, reason)
         IN  /\ positions' = [positions EXCEPT ![token] = pos]
             /\ successful_sells' = IF Positive(pos.pnl_percent)
                                    THEN successful_sells + 1
                                    ELSE successful_sells
             /\ UNCHANGED <<tracked_tokens, total_trades>>

\* TRUE iff close_position returns the position (not None).
close_position_result(token) ==
    IF token \notin DOMAIN positions THEN FALSE
    ELSE positions[token].status = "open"

\* close_position: what it does to the store.
close_position(token, exit_price, reason) ==
    IF token \notin DOMAIN positions
    THEN UNCHANGED store
    ELSE IF positions[token].status # "open"
    THEN UNCHANGED store
    ELSE LET pos == ClosedPosition(positions[token], exit_price, reason)
         IN  /\ positions' = [positions EXCEPT ![token] = pos]
             /\ successful_sells' = IF Positive(pos.pnl_percent)
                                    THEN successful_sells + 1
                                    ELSE successful_sells
             /\ tracked_tokens' = tracked_tokens \ {token}
             /\ UNCHANGED total_trades

update_position_price(token, current_price) ==
    IF /\ token \in DOMAIN positions
       /\ positions[token].status = "open"
       /\ Positive(positions[token].entry_price)
    THEN /\ positions' = [positions EXCEPT ![token].pnl_percent =
                             PnlPercent(current_price, positions[token].entry_price)]
         /\ UNCHANGED <<tracked_tokens, total_trades, successful_sells>>
    ELSE UNCHANGED store


(***************************************************************************)
(* solana/raydium.py: constant-product swap amounts                        *)
(***************************************************************************)
(* Python's int has no width: a natural number is the sequence of its      *)
(* digits in base 2^14, lowest first and without leading zeros, so 0 is    *)
(* << >> and 2^14 + 5 is <<5, 1>>.                                         *)
(***************************************************************************)
Base == 2 ^ 14

RECURSIVE ToBig(_)
ToBig(n) == IF n = 0 THEN << >> ELSE <<n % Base>> \o ToBig(n \div Base)

RECURSIVE ToInt(_)
ToInt(b) == IF b = << >> THEN 0 ELSE b[1] + Base * ToInt(Tail(b))

RECURSIVE BTrim(_)
BTrim(b) ==
    IF b = << >> THEN << >>
    ELSE IF b[Len(b)] = 0 THEN BTrim(SubSeq(b, 1, Len(b) - 1))
    ELSE b

Rest(b) == IF b = << >> THEN << >> ELSE Tail(b)
Low(b) == IF b = << >> THEN 0 ELSE b[1]

RECURSIVE BAddC(_, _, _)
BAddC(a, b, carry) ==
    IF a = << >> /\ b = << >>
    THEN IF carry = 0 THEN << >> ELSE <<carry>>
    ELSE LET sum == Low(a) + Low(b) + carry
         IN  <<sum % Base>> \o BAddC(Rest(a), Rest(b), sum \div Base)

\* a + b
BAdd(a, b) == BAddC(a, b, 0)

RECURSIVE BSubB(_, _, _)
BSubB(a, b, borrow) ==
    IF a = << >> THEN << >>
    ELSE LET diff == Low(a) - Low(b) - borrow
         IN  <<IF diff < 0 THEN diff + Base ELSE diff>>
                 \o BSubB(Rest(a), Rest(b), IF diff < 0 THEN 1 ELSE 0)

\* a - b, for a >= b
BSub(a, b) == BTrim(BSubB(a, b, 0))

RECURSIVE BLessAt(_, _, _)
BLessAt(a, b, i) ==
    IF i = 0 THEN FALSE
    ELSE IF a[i] # b[i] THEN a[i] < b[i]
    ELSE BLessAt(a, b, i - 1)

\* a < b
BLess(a, b) == IF Len(a) # Len(b) THEN Len(a) < Len(b) ELSE BLessAt(a, b, Len(a))

\* a <= b
BLeq(a, b) == ~BLess(b, a)

\* b * q + carry for one digit q > 0
RECURSIVE BMulDigit(_, _, _)
BMulDigit(b, q, carry) ==
    IF b = << >>
    THEN IF carry = 0 THEN << >> ELSE <<carry>>
    ELSE LET p == b[1] * q + carry
         IN  <<p % Base>> \o BMulDigit(Tail(b), q, p \div Base)

\* a * b
RECURSIVE BMul(_, _)
BMul(a, b) ==
    IF a = << >> \/ b = << >> THEN << >>
    ELSE LET rest == BMul(Tail(a), b)
             shifted == IF rest = << >> THEN << >> ELSE <<0>> \o rest
         IN  IF a[1] = 0 THEN shifted
             ELSE BAdd(BMulDigit(b, a[1], 0), shifted)

\* Long division by d, one bit of the digit at a time from bit k down:
\* st is <<remainder, quotient>> so far.
RECURSIVE BDivBits(_, _, _, _)
BDivBits(digit, k, d, st) ==
    IF k = 0 THEN st
    ELSE LET bit == (digit \div (2 ^ (k - 1))) % 2
             rem == BAddC(st[1], st[1], bit)
         IN  IF BLess(rem, d)
             THEN BDivBits(digit, k - 1, d, <<rem, BAddC(st[2], st[2], 0)>>)
             ELSE BDivBits(digit, k - 1, d, <<BSub(rem, d), BAddC(st[2], st[2], 1)>>)

\* ... and one digit of n at a time from digit i down.
RECURSIVE BDivDigits(_, _, _, _)
BDivDigits(n, i, d, st) ==
    IF i = 0 THEN st
    ELSE BDivDigits(n, i - 1, d, BDivBits(n[i], 14, d, st))

\* n // d, for d > 0
BDiv(n, d) == BDivDigits(n, Len(n), d, << << >>, << >> >>)[2]

\* k * 10^e
RECURSIVE Big(_, _)
Big(k, e) == IF e = 0 THEN ToBig(k) ELSE BMul(ToBig(10), Big(k, e - 1))

\* 2^k
Pow2(k) == [i \in 1..(k \div 14) |-> 0] \o <<2 ^ (k % 14)>>

\* The number of bits of n
BitLen(n) ==
    IF n = << >> THEN 0
    ELSE 14 * (Len(n) - 1)
            + (CHOOSE k \in 1..14 : 2 ^ (k - 1) <= n[Len(n)] /\ n[Len(n)] < 2 ^ k)

(***************************************************************************)
(* A Python float is an IEEE-754 double: 53 significant bits, results      *)
(* rounded to nearest, ties to even.                                       *)
(***************************************************************************)
\* n rounded to 53 significant bits
RoundDouble(n) ==
    IF BitLen(n) <= 53 THEN n
    ELSE LET unit == Pow2(BitLen(n) - 53)
             half == Pow2(BitLen(n) - 54)
             q == BDiv(n, unit)
             r == BSub(n, BMul(q, unit))
             up == BLess(half, r) \/ (r = half /\ q[1] % 2 = 1)
         IN  BMul(IF up THEN BAdd(q, <<1>>) ELSE q, unit)

\* The double 0.995 is 0x1.fd70a3d70a3d7p-1, which is
\* 8962163258467287 / 2^53 = (8346664 * 2^30 + 1030792151) / 2^53.
Double0995 == BAdd(BMul(ToBig(8346664), Pow2(30)), ToBig(1030792151))

\* int(amount_out * 0.995): amount_out is converted to a double, the product
\* is rounded to a double and truncated.
slippage_floor(amount_out) ==
    BDiv(RoundDouble(BMul(RoundDouble(amount_out), Double0995)), Pow2(53))

\* Mutant: the numerator is kept in 64 bits.
calculate_swap_amounts_u64(amount_in, reserve_in, reserve_out) ==
    IF reserve_in = << >> \/ reserve_out = << >> \/ amount_in = << >>
    THEN << << >>, << >> >>
    ELSE LET amount_in_with_fee == BMul(amount_in, ToBig(997))
             product == BMul(amount_in_with_fee, reserve_out)
             numerator == BSub(product, BMul(BDiv(product, Pow2(64)), Pow2(64)))
             denominator == BAdd(BMul(reserve_in, ToBig(1000)), amount_in_with_fee)
             amount_out == BDiv(numerator, denominator)
         IN  <<amount_out, slippage_floor(amount_out)>>

\* Mutant: the fee is not taken from amount_in.
calculate_swap_amounts_no_fee(amount_in, reserve_in, reserve_out) ==
    IF reserve_in = << >> \/ reserve_out = << >> \/ amount_in = << >>
    THEN << << >>, << >> >>
    ELSE LET amount_out == BDiv(BMul(amount_in, reserve_out),
                                BAdd(reserve_in, amount_in))
         IN  <<amount_out, slippage_floor(amount_out)>>

\* Mutant: the amount paid in is not added to the input reserve.
calculate_swap_amounts_fixed_price(amount_in, reserve_in, reserve_out) ==
    IF reserve_in = << >> \/ reserve_out = << >> \/ amount_in = << >>
    THEN << << >>, << >> >>
    ELSE LET amount_in_with_fee == BMul(amount_in, ToBig(997))
             numerator == BMul(amount_in_with_fee, reserve_out)
             denominator == BMul(reserve_in, ToBig(1000))
             amount_out == BDiv(numerator, denominator)
         IN  <<amount_out, slippage_floor(amount_out)>>

(***************************************************************************)
(* calculate_swap_amounts                                                  *)
(***************************************************************************)
calculate_swap_amounts(amount_in, reserve_in, reserve_out) ==
    IF reserve_in = << >> \/ reserve_out = << >> \/ amount_in = << >>
    THEN << << >>, << >> >>
    ELSE LET amount_in_with_fee == BMul(amount_in, ToBig(997))
             numerator == BMul(amount_in_with_fee, reserve_out)
             denominator == BAdd(BMul(reserve_in, ToBig(1000)), amount_in_with_fee)
             amount_out == BDiv(numerator, denominator)
         IN  <<amount_out, slippage_floor(amount_out)>>

(***************************************************************************)
(* core/strategy.py: entry guard                                           *)
(***************************************************************************)
\* StrategyConfig.enabled (its default)
StrategyEnabled == TRUE

\* TRUE iff on_new_pool returns a BUY signal; is_safe is the safety report.
on_new_pool(token, is_safe) ==
    IF ~StrategyEnabled THEN FALSE
    ELSE IF has_open_position(token) THEN FALSE
    ELSE is_safe

(***************************************************************************)
(* core/executor.py                                                        *)
(*                                                                         *)
(* What the collaborators answer during one buy is the record env:         *)
(*   pool      find_pool_by_mints found a pool                             *)
(*   keys      load_pool_keys resolved the keys                            *)
(*   balance   wallet balance, in lamports                                 *)
(*   reserve_base, reserve_quote, is_sol_base   the pool                   *)
(*   submit    "ok" | "error"  (blockhash, signing or send raised)         *)
(*   status    "ok" | "err" | "timeout"  what the status polls observed    *)
(*   price     the price feed's answer (0 = unavailable)                   *)
(***************************************************************************)
\* 0.02 SOL kept for fees, in lamports
FeeBufferLamports == 20000000

\* signal.amount_sol, in lamports
Amounts == {0, 1}
Balances == {FeeBufferLamports + b : b \in Amounts}
\* (base, quote) reserves: an empty side, both empty, a live pool
ReservePairs == {<<0, 0>>, <<0, 1>>, <<1, 0>>, <<1, 3>>}

EnvRec(pool, keys, balance, reserves, sb, submit, status, price) ==
    [pool |-> pool, keys |-> keys, balance |-> balance,
     reserve_base |-> reserves[1], reserve_quote |-> reserves[2],
     is_sol_base |-> sb, submit |-> submit, status |-> status, price |-> price]

\* The answers a buy of amount can get.  An answer that is never read (the
\* flow returned before asking for it) is fixed to one value.
BuyEnvs(amount) ==
    LET funded == {b \in Balances : b >= amount + FeeBufferLamports}
        live == {r \in ReservePairs : r[1] # 0 /\ r[2] # 0}
    IN  {EnvRec(FALSE, FALSE, FeeBufferLamports, <<0, 0>>, FALSE, "error", "timeout", Frac(0)),
         EnvRec(TRUE, FALSE, FeeBufferLamports, <<0, 0>>, FALSE, "error", "timeout", Frac(0))}
        \cup {EnvRec(TRUE, TRUE, b, <<0, 0>>, FALSE, "error", "timeout", Frac(0)) :
                 b \in Balances \ funded}
        \cup {EnvRec(TRUE, TRUE, b, r, FALSE, "error", "timeout", Frac(0)) :
                 b \in funded, r \in ReservePairs \ live}
        \cup {EnvRec(TRUE, TRUE, b, r, sb, "error", "timeout", Frac(0)) :
                 b \in funded, r \in live, sb \in BOOLEAN}
        \cup {EnvRec(TRUE, TRUE, b, r, sb, "ok", st, Frac(0)) :
                 b \in funded, r \in live, sb \in BOOLEAN, st \in {"err", "timeout"}}
        \cup {EnvRec(TRUE, TRUE, b, r, sb, "ok", "ok", p) :
                 b \in funded, r \in live, sb \in BOOLEAN, p \in Prices}

(***************************************************************************)
(* What went wrong in a buy, read off the collaborators' answers alone.    *)
(***************************************************************************)
BuyFailure(amount, env) ==
    IF ~env.pool THEN "pool"
    ELSE IF ~env.keys THEN "keys"
    ELSE IF env.balance < amount + FeeBufferLamports THEN "balance"
    ELSE IF env.reserve_base = 0 \/ env.reserve_quote = 0 THEN "reserves"
    ELSE IF env.submit = "error" THEN "submit"
    ELSE IF env.status = "err" THEN "onchain"
    ELSE IF env.status = "timeout" THEN "timeout"
    ELSE "none"

\* What get_account_info finds at an associated token account's address;
\* "error" is the RPC call raising.
AtaStates == {"present", "missing", "error"}

\* The answers the two ensure_ata calls of a buy can get (wrapped SOL, token);
\* they are asked for only after the balance check passed.
AtaEnvs(amount, env) ==
    IF BuyFailure(amount, env) \in {"pool", "keys", "balance"}
    THEN {<<"present", "present">>}
    ELSE AtaStates \X AtaStates

\* solana/raydium.py ensure_ata: the pair (address, creation instruction)
\* it returns when the account at the address is found in state account.
ensure_ata(mint, account) ==
    IF account = "missing" THEN <<mint, "none">>
    ELSE IF account = "present" THEN <<mint, "none">>
    ELSE <<mint, "none">>

Call(op, token, ok, failure) ==
    [op |-> op, token |-> token, ok |-> ok, failure |-> failure]

\* A handler returns: the call's record is completed with the value.
Return(call, ok) == last' = [call EXCEPT !.ok = ok]

\* The record of a buy: what the ensure_ata calls found and returned (the
\* returned pairs are what is handed to build_swap_ix as user_source and
\* user_dest), and whether the swap transaction was sent to the network.
BuyCall(token, amount, env, atas) ==
    [op |-> "buy", token |-> token, ok |-> FALSE,
     failure |-> BuyFailure(amount, env),
     ata_sol |-> atas[1], ata_token |-> atas[2],
     user_source |-> ensure_ata("wsol", atas[1]),
     user_dest |-> ensure_ata(token, atas[2]),
     submitted |-> BuyFailure(amount, env) \in {"onchain", "timeout", "none"}]

\* TRUE iff a status without error was observed inside the window
confirm_transaction(status) == status = "ok"

\* Mutant: the signature is returned as soon as the send went through.
send_transaction_unconfirmed(submit, status) == submit # "error"

\* TRUE iff _send_transaction returns the signature (not None)
send_transaction(submit, status) ==
    IF submit = "error" THEN FALSE
    ELSE confirm_transaction(status)

\* The Position _execute_buy builds after a confirmed swap.
BoughtPosition(amount_in_lamports, amount_out, price) ==
    Position(IF Positive(price) THEN price
             ELSE IF amount_out > 0 THEN Norm(amount_in_lamports, amount_out)
             ELSE Frac(0),
             "open")

\* _execute_buy; the flag it returns completes the call record.
execute_buy(token, amount, env, call) ==
    IF ~env.pool THEN Return(call, FALSE) /\ UNCHANGED store
    ELSE IF ~env.keys THEN Return(call, FALSE) /\ UNCHANGED store
    ELSE IF env.balance < amount + FeeBufferLamports
    THEN Return(call, FALSE) /\ UNCHANGED store
    ELSE IF env.reserve_base = 0 \/ env.reserve_quote = 0
    THEN Return(call, FALSE) /\ UNCHANGED store
    ELSE LET amounts == IF env.is_sol_base
                        THEN calculate_swap_amounts(ToBig(amount),
                                                    ToBig(env.reserve_base),
                                                    ToBig(env.reserve_quote))
                        ELSE calculate_swap_amounts(ToBig(amount),
                                                    ToBig(env.reserve_quote),
                                                    ToBig(env.reserve_base))
         IN  IF send_transaction(env.submit, env.status)
             THEN /\ add_position(token,
                         BoughtPosition(amount, ToInt(amounts[1]), env.price))
                  /\ Return(call, TRUE)
             ELSE Return(call, FALSE) /\ UNCHANGED store

\* The record of a SELL signal handed to the executor; price is what
\* get_token_price answers, NoPrice if it is not asked.
SellCall(token, reason, current_price) ==
    [op |-> "sell", token |-> token, ok |-> FALSE, failure |-> "none",
     reason |-> reason, price |-> current_price]

\* Mutant: the stored position is not looked at before closing.
execute_sell_unchecked(token, reason, current_price, call) ==
    close_position(token, current_price, reason) /\ Return(call, TRUE)

\* _execute_sell; current_price is what get_token_price answers.
execute_sell(token, reason, current_price, call) ==
    IF token \notin DOMAIN positions \/ positions[token].status # "open"
    THEN Return(call, FALSE) /\ UNCHANGED store
    ELSE close_position(token, current_price, reason) /\ Return(call, TRUE)

(***************************************************************************)
(* The bot: main.py drives the store through the strategy and executor.    *)
(***************************************************************************)
StoreInit ==
    /\ positions = << >>
    /\ tracked_tokens = {}
    /\ total_trades = 0
    /\ successful_sells = 0
    /\ last = Call("init", "T1", FALSE, "none")

\* SolanaListener.__init__, and the server before any connection
ListenerInit ==
    /\ running = FALSE
    /\ ws_url = "primary"
    /\ websocket = "none"
    /\ reconnect_count = 0
    /\ subscriptions = << >>
    /\ pc = "idle"
    /\ inbox = << >>
    /\ conns = 0
    /\ server_subscribed = FALSE
    /\ next_sig = 1
    /\ read = {}
    /\ calls = << >>
    /\ delays = << >>
    /\ attempts = << >>

\* The monitor task at at, with the token and the price of the position it
\* is visiting.
MonitorAt(at, token, price) == [at |-> at, token |-> token, price |-> price]

\* GMGNBot.__init__: run() was not called yet
MonitorInit ==
    /\ bot_running = FALSE
    /\ mpc = MonitorAt("idle", "none", NoPrice)
    /\ todo = {}

Init ==
    /\ StoreInit
    /\ ListenerInit
    /\ MonitorInit
    /\ copy_trading_enabled = FALSE

\* _on_raydium_event for a NEW_POOL event whose mint is token
OnRaydiumEvent(token) ==
    /\ total_trades < MaxTrades
    /\ \E is_safe \in BOOLEAN :
          IF on_new_pool(token, is_safe)
          THEN \E amount \in Amounts : \E env \in BuyEnvs(amount) :
                  execute_buy(token, amount, env,
                              Call("buy", token, FALSE, BuyFailure(amount, env)))
          ELSE /\ UNCHANGED store
               /\ last' = Call("skip", token, FALSE, "none")
    /\ UNCHANGED <<listener, monitor>>

\* executor.execute of a SELL signal
ExecuteSell(token) ==
    \E reason \in Reasons, current_price \in Prices :
        /\ execute_sell(token, reason, current_price,
                        SellCall(token, reason,
                                 IF has_open_position(token) THEN current_price
                                 ELSE NoPrice))
        /\ UNCHANGED <<listener, monitor>>

\* _monitor_prices: one open position, a positive price from the feed
MonitorPrice(token) ==
    /\ token \in get_open_positions
    /\ \E current_price \in Prices :
        /\ Positive(current_price)
        /\ update_position_price(token, current_price)
        /\ last' = Call("update", token, TRUE, "none")
        /\ UNCHANGED <<listener, monitor>>

Next ==
    \E token \in Tokens :
        \/ OnRaydiumEvent(token)
        \/ ExecuteSell(token)
        \/ MonitorPrice(token)

Spec == Init /\ [][Next]_vars

(***************************************************************************)
(* The buy flow alone: executor.execute of BUY signals, with what the two  *)
(* ensure_ata calls find.                                                  *)
(***************************************************************************)
ExecuteBuy(token) ==
    /\ total_trades < MaxTrades
    /\ \E amount \in Amounts : \E env \in BuyEnvs(amount) :
        \E atas \in AtaEnvs(amount, env) :
            execute_buy(token, amount, env, BuyCall(token, amount, env, atas))
    /\ UNCHANGED <<listener, monitor>>

NextBuy == \E token \in Tokens : ExecuteBuy(token)

SpecBuy == Init /\ [][NextBuy]_vars

(***************************************************************************)
(* The position store on its own: its three mutators called in any order.  *)
(***************************************************************************)
AddPositionCall(token, entry_price, status) ==
    /\ total_trades < MaxTrades
    /\ add_position(token, Position(entry_price, status))
    /\ last' = Call("add", token, TRUE, "none")
    /\ UNCHANGED <<listener, monitor>>

ClosePositionCall(token, exit_price, reason) ==
    /\ close_position(token, exit_price, reason)
    /\ last' = Call("close", token, close_position_result(token), "none")
    /\ UNCHANGED <<listener, monitor>>

UpdatePositionPriceCall(token, current_price) ==
    /\ update_position_price(token, current_price)
    /\ last' = Call("update", token, TRUE, "none")
    /\ UNCHANGED <<listener, monitor>>

AddPosition(token) ==
    \E entry_price \in Prices, status \in PositionStatus :
        AddPositionCall(token, entry_price, status)

AddOpenPosition(token) ==
    \E entry_price \in Prices : AddPositionCall(token, entry_price, "open")

ClosePosition(token) ==
    \E exit_price \in Prices, reason \in Reasons :
        ClosePositionCall(token, exit_price, reason)

UpdatePositionPrice(token) ==
    \E current_price \in Prices : UpdatePositionPriceCall(token, current_price)

NextStore ==
    \E token \in Tokens :
        \/ AddPosition(token)
        \/ ClosePosition(token)
        \/ UpdatePositionPrice(token)

SpecStore == Init /\ [][NextStore]_vars

\* Only positions created with status OPEN are added.
NextOpenStore ==
    \E token \in Tokens :
        \/ AddOpenPosition(token)
        \/ ClosePosition(token)
        \/ UpdatePositionPrice(token)

SpecOpenStore == Init /\ [][NextOpenStore]_vars

(***************************************************************************)
(* Properties of the buy flow and of the position store.                   *)
(***************************************************************************)

\* C1: a buy registers a position only after the swap was submitted and a
\* status without error was observed; a buy in which any step failed (no
\* pool, no pool keys, balance below amount plus fee buffer, empty reserves,
\* submission error, on-chain error, confirmation timeout) returns False and
\* leaves positions, the tracked set and both counters as they were.
C1_FailedBuyLeavesStore ==
    [][last'.op = "buy" =>
          /\ last'.failure # "none" => (~last'.ok /\ UNCHANGED store)
          /\ store' # store => (last'.ok /\ last'.failure = "none")
          /\ last'.failure = "none" =>
                /\ last'.ok
                /\ last'.token \in DOMAIN positions'
                /\ positions'[last'.token].status = "open"
                /\ total_trades' = total_trades + 1]_vars

\* A buy timed out waiting for confirmation while a position was held.
C1_Witness ==
    /\ last.op = "buy" /\ ~last.ok /\ last.failure = "timeout"
    /\ \E t \in DOMAIN positions : positions[t].status = "open"

\* C2: the status stored for a token never moves back from CLOSED to OPEN or
\* PENDING, nor from OPEN to PENDING.
C2_StatusMonotonic ==
    [][\A t \in DOMAIN positions :
          /\ positions[t].status = "closed" => positions'[t].status = "closed"
          /\ positions[t].status = "open" => positions'[t].status # "pending"]_vars

\* C3: close_position on a token that is absent or whose position is not
\* OPEN returns None and changes nothing in the store.
C3_CloseNotOpenIsNoOp ==
    [][\A t \in Tokens, p \in Prices, r \in Reasons :
          (ClosePositionCall(t, p, r) /\ ~has_open_position(t)) =>
              (~last'.ok /\ UNCHANGED store)]_vars

\* close_position was called on a PENDING position and returned None.
C3_Witness ==
    /\ last.op = "close" /\ ~last.ok
    /\ last.token \in DOMAIN positions
    /\ positions[last.token].status = "pending"
    /\ \E t \in DOMAIN positions : positions[t].status = "closed"

\* C4 as stated: close_position on an OPEN position sets status CLOSED,
\* stamps exit price and reason and sets pnl_percent to
\* (exit - entry) / entry * 100 whatever the entry price, zero included.
C4_ClosePnlAlways ==
    [][\A t \in Tokens, p \in Prices, r \in Reasons :
          (ClosePositionCall(t, p, r) /\ has_open_position(t)) =>
              positions'[t] =
                  [positions[t] EXCEPT
                      !.status = "closed", !.exit_price = p, !.exit_reason = r,
                      !.pnl_percent = PnlPercent(p, positions[t].entry_price)]]_vars

\* C4 amended: close_position on an OPEN position sets status CLOSED, stamps
\* exit price and reason, returns the position, and sets pnl_percent to
\* (exit - entry) / entry * 100 when the entry price is positive; when the
\* entry price is not positive pnl_percent keeps the value it had.
C4_ClosePnlPositiveEntry ==
    [][\A t \in Tokens, p \in Prices, r \in Reasons :
          (ClosePositionCall(t, p, r) /\ has_open_position(t)) =>
              /\ last'.ok
              /\ positions'[t] =
                  [positions[t] EXCEPT
                      !.status = "closed", !.exit_price = p, !.exit_reason = r,
                      !.pnl_percent =
                          IF Positive(positions[t].entry_price)
                          THEN PnlPercent(p, positions[t].entry_price)
                          ELSE positions[t].pnl_percent]]_vars

\* A position with positive entry price was closed at another price, and one
\* with entry price zero was closed.
C4_Witness ==
    /\ last.op = "close" /\ last.ok
    /\ LET pos == positions[last.token]
       IN  /\ pos.status = "closed"
           /\ Positive(pos.entry_price)
           /\ pos.exit_price # pos.entry_price
           /\ pos.pnl_percent = PnlPercent(pos.exit_price, pos.entry_price)
    /\ \E t \in DOMAIN positions :
          /\ positions[t].status = "closed"
          /\ positions[t].entry_price = Frac(0)
          /\ Positive(positions[t].exit_price)

\* C5: once a token's position is CLOSED its record stays in the store with
\* exit price, exit reason and final pnl unchanged, a later buy of the same
\* token included.
C5_ClosedRecordRetained ==
    [][\A t \in DOMAIN positions :
          positions[t].status = "closed" =>
              /\ t \in DOMAIN positions'
              /\ positions'[t].exit_price = positions[t].exit_price
              /\ positions'[t].exit_reason = positions[t].exit_reason
              /\ positions'[t].pnl_percent = positions[t].pnl_percent]_vars

\* C6: with only OPEN positions added, a token is tracked iff the position
\* stored for it is OPEN.
C6_TrackedIffOpen ==
    \A t \in Tokens :
        t \in tracked_tokens <=>
            (t \in DOMAIN positions /\ positions[t].status = "open")

\* One token was closed and left the tracked set while another is tracked.
C6_Witness ==
    \E t1, t2 \in DOMAIN positions :
        /\ positions[t1].status = "closed" /\ t1 \notin tracked_tokens
        /\ positions[t2].status = "open" /\ t2 \in tracked_tokens

(***************************************************************************)
(* core/listener.py                                                        *)
(*                                                                         *)
(* The connection is a FIFO of frames (inbox).  A frame is a reply to a    *)
(* subscribe request ("ack" carries "result", "error" does not) or a       *)
(* logsNotification ("logs") with its signature and its number of log      *)
(* lines.  The task running listen() is at pc:                             *)
(*   "idle"     listen() not called yet                                    *)
(*   "loop"     at the while test (line 146)                               *)
(*   "recv"     after the reconnect of line 149, before recv (line 152)    *)
(*   "handler"  in the ConnectionClosed handler, before line 160           *)
(*   "done"     the loop ended because running is false                    *)
(*   "raised"   an exception left listen()                                 *)
(***************************************************************************)
\* config.copy_trading.target_wallets
Wallets == <<"W1">>

\* the log callbacks, in registration order
raydium_callbacks == <<"cb1", "cb2">>

\* the account callbacks, in registration order
copy_trade_callbacks == <<"acb1", "acb2">>

Min(a, b) == IF a < b THEN a ELSE b

Frame(kind, id, sig, logs) == [kind |-> kind, id |-> id, sig |-> sig, logs |-> logs]
AckFrame(id) == Frame("ack", id, 0, 0)
ErrorFrame == Frame("error", 0, 0, 0)
LogsFrame(sig, logs) == Frame("logs", 0, sig, logs)

\* accountNotification of subscription id; sig names the changed value and
\* logs its content
AccountFrame(id, sig, value) == Frame("account", id, sig, value)

\* a notification of another method
OtherFrame(sig) == Frame("other", 0, sig, 0)

\* text that is not JSON
GarbageFrame(sig) == Frame("garbage", 0, sig, 0)

\* JSON of another shape: a number, or an object whose "params" is null
OddFrame(sig) == Frame("odd", 0, sig, 0)

\* A callback is a function of its arguments: the callbacks that raise when
\* called with this content (log lines, or account value).
Raising(content) ==
    CASE content = 2 -> {raydium_callbacks[1], copy_trade_callbacks[1]}
      [] content = 3 -> {raydium_callbacks[2], copy_trade_callbacks[2]}
      [] content = 4 -> {raydium_callbacks[1], raydium_callbacks[2],
                         copy_trade_callbacks[1], copy_trade_callbacks[2]}
      [] OTHER -> {}

\* The id the server gives to the k-th subscription of a connection whose
\* subscriptions it numbers from first on.
SubId(first, k) == first + k

\* The ids a node may give to the first subscription of a connection.
FirstIds == {1, 2}

\* What the network and the server do during one _reconnect:
\*   c     outcome of each websockets.connect, "ok" or "refused"
\*   ray   reply to logsSubscribe: "ack", "error" or "closed"
\*   wal   reply to each accountSubscribe
\*   pre   log notifications that reach the client before each of these replies
\*   first the id the server gives to the first subscription
ConnEnv(c, ray, wal, pre, first) ==
    [c |-> c, ray |-> ray, wal |-> wal, pre |-> pre, first |-> first]

Replies == {"ack", "error", "closed"}

WalletEnvs ==
    IF copy_trading_enabled
    THEN {<<wal, pre>> \in [1..Len(Wallets) -> Replies] \X [1..Len(Wallets) -> 0..1] :
             \A i \in 1..Len(Wallets) :
                 \* answers after the connection closed are never read
                 (\E j \in 1..(i - 1) : wal[j] = "closed") =>
                     (wal[i] = "closed" /\ pre[i] = 0)}
    ELSE {<<[i \in 1..Len(Wallets) |-> "closed"], [i \in 1..Len(Wallets) |-> 0]>>}

SubscribeEnvs(c) ==
    {ConnEnv(c, "closed", [i \in 1..Len(Wallets) |-> "closed"],
             [i \in 1..Len(Wallets) |-> 0], 1)}
    \cup {ConnEnv(c, "error", w[1], [i \in 1..Len(Wallets) |-> 0], first) :
             w \in {x \in WalletEnvs : \A i \in 1..Len(Wallets) : x[2][i] = 0},
             first \in FirstIds}
    \cup {ConnEnv(c, "ack", w[1], w[2], first) :
             w \in WalletEnvs, first \in FirstIds}

RefusedEnv(c) ==
    ConnEnv(c, "closed", [i \in 1..Len(Wallets) |-> "closed"],
            [i \in 1..Len(Wallets) |-> 0], 1)

ConnectEnvs ==
    (IF ws_url = "primary"
     THEN {RefusedEnv(<<"refused", "refused">>)}
     ELSE {RefusedEnv(<<"refused">>)})
    \cup (IF conns < MaxConns
          THEN SubscribeEnvs(<<"ok">>)
               \cup (IF ws_url = "primary"
                     THEN SubscribeEnvs(<<"refused", "ok">>)
                     ELSE {})
          ELSE {})

\* The connection while connect() subscribes on it.  sent: the requests
\* sent on it, each with the kind of frame that recv() then returned.
NewConnection ==
    [subscriptions |-> subscriptions, inbox |-> << >>, next_sig |-> next_sig,
     read |-> read, server_subscribed |-> FALSE, alive |-> TRUE, exc |-> FALSE,
     sent |-> << >>]

\* send(request) then recv(): the next frame on the connection is taken for
\* the reply, and stored under key if it carries "result".  exc: the pair
\* raised ConnectionClosed.
Request(c, key, id, pre, reply) ==
    IF ~c.alive THEN [c EXCEPT !.exc = TRUE]
    ELSE IF reply = "closed"
    THEN [c EXCEPT !.alive = FALSE, !.exc = TRUE, !.inbox = << >>,
                   !.server_subscribed = FALSE,
                   !.sent = Append(@, [key |-> key, got |-> "closed"])]
    ELSE LET n == IF c.server_subscribed
                  THEN Min(pre, (MaxNotifs + 1) - c.next_sig)
                  ELSE 0
             notifs == [i \in 1..n |-> LogsFrame(c.next_sig + i - 1, 1)]
             arrived == c.inbox \o notifs \o
                            <<IF reply = "ack" THEN AckFrame(id) ELSE ErrorFrame>>
             data == Head(arrived)
         IN  [c EXCEPT !.inbox = Tail(arrived),
                       !.next_sig = @ + n,
                       !.read = IF data.kind = "logs" THEN @ \cup {data.sig} ELSE @,
                       !.subscriptions = IF data.kind = "ack"
                                         THEN Put(@, key, data.id)
                                         ELSE @,
                       !.exc = FALSE,
                       !.sent = Append(@, [key |-> key, got |-> data.kind])]

\* _subscribe_raydium: an exception is not caught here.
subscribe_raydium(c, first, env) ==
    LET r == Request(c, "raydium", SubId(first, 0), 0, env.ray)
    IN  IF r.exc THEN r
        ELSE [r EXCEPT !.server_subscribed = (env.ray = "ack")]

\* _subscribe_copy_trading_wallets from wallet i on: each exception is caught.
RECURSIVE subscribe_copy_trading_wallets(_, _, _, _)
subscribe_copy_trading_wallets(c, i, first, env) ==
    IF i > Len(Wallets) THEN c
    ELSE LET r == Request(c, Wallets[i], SubId(first, i), env.pre[i], env.wal[i])
         IN  subscribe_copy_trading_wallets([r EXCEPT !.exc = FALSE], i + 1, first, env)

\* Mutant: a failure does not select another endpoint.
next_endpoint_same(url) == url

\* The endpoint connect() selects after a failure on url (fallback_ws).
next_endpoint(url) == "fallback"

\* connect() on endpoint url; env.c[i] is the outcome of this websockets.connect.
\* raised: ConnectionClosed left connect().
RECURSIVE connect(_, _, _, _)
connect(url, count, i, env) ==
    IF env.c[i] = "ok"
    THEN LET c1 == subscribe_raydium(NewConnection, env.first, env)
             c2 == IF c1.exc THEN c1
                   ELSE IF copy_trading_enabled
                   THEN subscribe_copy_trading_wallets(c1, 1, env.first, env)
                   ELSE c1
         IN  [ws_url |-> url, websocket |-> IF c2.alive THEN "open" ELSE "closed",
              reconnect_count |-> 0, c |-> c2, connected |-> TRUE,
              raised |-> c1.exc, tried |-> <<url>>]
    ELSE IF next_endpoint(url) # url
    THEN LET r == connect(next_endpoint(url), count, i + 1, env)
         IN  [r EXCEPT !.tried = <<url>> \o @]
    ELSE [ws_url |-> url, websocket |-> websocket, reconnect_count |-> count,
          c |-> [NewConnection EXCEPT !.inbox = inbox,
                                      !.server_subscribed = server_subscribed],
          connected |-> FALSE, raised |-> FALSE, tried |-> <<url>>]

\* Mutant: the delay is not capped.
reconnect_delay_uncapped(count) == 2 ^ count

\* min(2 ** reconnect_count, 60)
reconnect_delay(count) == Min(2 ^ count, 60)

\* _reconnect; the task goes on at pc_ok, or at pc_exc if ConnectionClosed
\* left _reconnect.
reconnect(env, pc_ok, pc_exc) ==
    LET count == reconnect_count + 1
        delay == reconnect_delay(count)
        r == connect(ws_url, count, 1, env)
    IN  /\ ws_url' = r.ws_url
        /\ websocket' = r.websocket
        /\ reconnect_count' = r.reconnect_count
        /\ subscriptions' = r.c.subscriptions
        /\ inbox' = r.c.inbox
        /\ server_subscribed' = r.c.server_subscribed
        /\ next_sig' = r.c.next_sig
        /\ read' = r.c.read
        /\ conns' = IF r.connected THEN conns + 1 ELSE conns
        /\ delays' = IF r.connected THEN << >> ELSE Append(delays, delay)
        /\ attempts' = r.tried
        /\ pc' = IF r.raised THEN pc_exc ELSE pc_ok

\* Mutant: the loop over the callbacks ends at the first one that raises.
RECURSIVE invoke_until_raise(_, _, _)
invoke_until_raise(callbacks, i, content) ==
    IF i > Len(callbacks) THEN << >>
    ELSE IF callbacks[i] \in Raising(content) THEN <<callbacks[i]>>
    ELSE <<callbacks[i]>> \o invoke_until_raise(callbacks, i + 1, content)

\* for callback in callbacks: try: callback(...) except Exception: log.
\* The callbacks invoked, from the i-th on.
RECURSIVE invoke(_, _, _)
invoke(callbacks, i, content) ==
    IF i > Len(callbacks) THEN << >>
    ELSE <<callbacks[i]>> \o invoke(callbacks, i + 1, content)

\* _notify_raydium_callbacks(logs, signature)
notify_raydium_callbacks(logs, signature) ==
    LET invoked == invoke(raydium_callbacks, 1, logs)
    IN  calls \o [i \in 1..Len(invoked) |-> <<invoked[i], signature, logs>>]

\* _notify_copy_trade_callbacks(account_data, wallet); sig names account_data
notify_copy_trade_callbacks(account_data, sig, wallet) ==
    LET invoked == invoke(copy_trade_callbacks, 1, account_data)
    IN  calls \o [i \in 1..Len(invoked) |-> <<invoked[i], sig, wallet, account_data>>]

\* _get_wallet_by_subscription: the first key 'wallet_<address>' of the table
\* that holds sub_id, without its prefix; None ("none") if there is none.  The
\* table's key of a wallet is written here as the address itself, and
\* "raydium" is the one key without the prefix.
get_wallet_by_subscription(sub_id) ==
    LET found == {i \in 1..Len(Wallets) :
                     /\ Wallets[i] \in DOMAIN subscriptions
                     /\ subscriptions[Wallets[i]] = sub_id}
    IN  IF found = {} THEN "none"
        ELSE Wallets[CHOOSE i \in found : \A j \in found : i <= j]

\* Mutant: a frame without "method" is handled as a log notification.
process_message_any_method(data) ==
    IF data.kind \in {"garbage", "odd", "other"} THEN calls
    ELSE IF data.kind = "account"
    THEN LET wallet == get_wallet_by_subscription(data.id)
         IN  IF wallet # "none"
             THEN notify_copy_trade_callbacks(data.logs, data.sig, wallet)
             ELSE calls
    ELSE notify_raydium_callbacks(data.logs, data.sig)

\* _process_message: the callback invocations after the frame was processed.
\* JSONDecodeError ("garbage") and any other exception ("odd") are caught and
\* logged.
process_message(data) ==
    IF data.kind \in {"garbage", "odd"} THEN calls
    ELSE IF data.kind \in {"ack", "error"} THEN calls
    ELSE IF data.kind = "logs"
    THEN IF data.logs > 0
         THEN notify_raydium_callbacks(data.logs, data.sig)
         ELSE calls
    ELSE IF data.kind = "account"
    THEN LET wallet == get_wallet_by_subscription(data.id)
         IN  IF wallet # "none"
             THEN notify_copy_trade_callbacks(data.logs, data.sig, wallet)
             ELSE calls
    ELSE calls

\* listen() is called
Listen ==
    /\ pc = "idle"
    /\ running' = TRUE
    /\ pc' = "loop"
    /\ UNCHANGED <<store, monitor, last, copy_trading_enabled, ws_url, websocket,
                   reconnect_count, subscriptions, inbox, conns,
                   server_subscribed, next_sig, read, calls, delays, attempts>>

\* line 146: the loop ends
ListenExit ==
    /\ pc = "loop" /\ ~running
    /\ pc' = "done"
    /\ UNCHANGED <<store, monitor, last, copy_trading_enabled, running, ws_url, websocket,
                   reconnect_count, subscriptions, inbox, conns,
                   server_subscribed, next_sig, read, calls, delays, attempts>>

\* lines 148-149: no open connection, _reconnect inside the try
ListenReconnect ==
    /\ pc = "loop" /\ running /\ websocket # "open"
    /\ reconnect_count < MaxReconnect \/ ~running
    /\ \E env \in ConnectEnvs : reconnect(env, "recv", "handler")
    /\ UNCHANGED <<store, monitor, last, copy_trading_enabled, running, calls>>

\* lines 158-160: _reconnect inside the ConnectionClosed handler
HandlerReconnect ==
    /\ pc = "handler"
    /\ reconnect_count < MaxReconnect \/ ~running
    /\ \E env \in ConnectEnvs : reconnect(env, "loop", "raised")
    /\ UNCHANGED <<store, monitor, last, copy_trading_enabled, running, calls>>

\* lines 152-163: recv with its timeout, _process_message, the except clauses
ListenRecv ==
    /\ \/ pc = "recv"
       \/ pc = "loop" /\ running /\ websocket = "open"
    /\ IF websocket = "none"
       THEN \* AttributeError, caught by except Exception: sleep(1)
            pc' = "loop" /\ UNCHANGED <<inbox, read, calls, last>>
       ELSE IF websocket = "closed"
       THEN \* recv raises ConnectionClosed
            pc' = "handler" /\ UNCHANGED <<inbox, read, calls, last>>
       ELSE IF inbox = << >>
       THEN \* asyncio.TimeoutError: continue
            pc' = "loop" /\ UNCHANGED <<inbox, read, calls, last>>
       ELSE /\ inbox' = Tail(inbox)
            /\ read' = IF Head(inbox).kind = "logs"
                       THEN read \cup {Head(inbox).sig}
                       ELSE read
            /\ calls' = process_message(Head(inbox))
            /\ last' = Call("process_message", Head(inbox).kind, TRUE, "none")
            /\ pc' = "loop"
    /\ UNCHANGED <<store, monitor, copy_trading_enabled, running, ws_url, websocket,
                   reconnect_count, subscriptions, conns, server_subscribed,
                   next_sig, delays, attempts>>

\* stop()
\* Mutant: the connection is closed and running is left set.
stop_keeps_running ==
    /\ running' = running
    /\ websocket' = IF websocket = "none" THEN "none" ELSE "closed"
    /\ inbox' = << >>
    /\ server_subscribed' = FALSE
    /\ UNCHANGED <<copy_trading_enabled, ws_url, reconnect_count,
                   subscriptions, pc, conns, next_sig, read, calls, delays,
                   attempts>>

\* stop(): running is cleared and the connection, if any, is closed
stop ==
    /\ running' = FALSE
    /\ websocket' = IF websocket = "none" THEN "none" ELSE "closed"
    /\ inbox' = << >>
    /\ server_subscribed' = FALSE
    /\ UNCHANGED <<copy_trading_enabled, ws_url, reconnect_count,
                   subscriptions, pc, conns, next_sig, read, calls, delays,
                   attempts>>

\* stop() is called on a running listener
Stop ==
    /\ running
    /\ stop
    /\ UNCHANGED <<store, monitor, last>>

\* The server streams a log notification.
ServerNotify ==
    /\ websocket = "open" /\ server_subscribed
    /\ next_sig <= MaxNotifs
    /\ \E logs \in 0..1 : inbox' = Append(inbox, LogsFrame(next_sig, logs))
    /\ next_sig' = next_sig + 1
    /\ UNCHANGED <<store, monitor, last, copy_trading_enabled, running, ws_url, websocket,
                   reconnect_count, subscriptions, pc, conns, server_subscribed,
                   read, calls, delays, attempts>>

\* The peer closes the connection; what it had sent and was not read is lost.
PeerClose ==
    /\ websocket = "open"
    /\ websocket' = "closed"
    /\ inbox' = << >>
    /\ server_subscribed' = FALSE
    /\ UNCHANGED <<store, monitor, last, copy_trading_enabled, running, ws_url,
                   reconnect_count, subscriptions, pc, conns, next_sig, read,
                   calls, delays, attempts>>

InitListener ==
    /\ StoreInit
    /\ ListenerInit
    /\ MonitorInit
    /\ copy_trading_enabled \in BOOLEAN

NextListener ==
    \/ Listen
    \/ ListenExit
    \/ ListenReconnect
    \/ HandlerReconnect
    \/ ListenRecv
    \/ Stop
    \/ ServerNotify
    \/ PeerClose

SpecListener == InitListener /\ [][NextListener]_vars

(***************************************************************************)
(* Dispatch of received frames: listen() on an open connection, after      *)
(* connect() returned with any subscription table, and a server that may   *)
(* send any frame.                                                         *)
(***************************************************************************)
\* The subscription table with the log stream under id r and the wallet
\* under id w; 0: no entry.
Table(r, w) ==
    LET t1 == IF r = 0 THEN << >> ELSE Put(<< >>, "raydium", r)
    IN  IF w = 0 THEN t1 ELSE Put(t1, Wallets[1], w)

\* The tables connect() leaves: an entry is written when its request is
\* acknowledged and is kept, with its old id, when a later request is not.
Tables ==
    {Table(r, w) : r \in {0} \cup {SubId(f, 0) : f \in FirstIds},
                   w \in {0} \cup {SubId(f, 1) : f \in FirstIds}}

\* The subscription ids a frame may carry; the last one is in no table.
FrameIds == {SubId(f, k) : f \in FirstIds, k \in 0..2}

\* The frames a server may send as its next one.
Frames(sig) ==
    {AckFrame(SubId(1, 0)), ErrorFrame, OtherFrame(sig), GarbageFrame(sig),
     OddFrame(sig)}
    \cup {LogsFrame(sig, logs) : logs \in 0..4}
    \cup {AccountFrame(id, sig, value) : id \in FrameIds, value \in 1..4}

ServerSend ==
    /\ websocket = "open"
    /\ next_sig <= MaxNotifs /\ Len(inbox) < 2
    /\ \E frame \in Frames(next_sig) : inbox' = Append(inbox, frame)
    /\ next_sig' = next_sig + 1
    /\ UNCHANGED <<store, monitor, last, copy_trading_enabled, running, ws_url, websocket,
                   reconnect_count, subscriptions, pc, conns, server_subscribed,
                   read, calls, delays, attempts>>

InitDispatch ==
    /\ StoreInit
    /\ MonitorInit
    /\ copy_trading_enabled = TRUE
    /\ running = TRUE
    /\ ws_url = "primary"
    /\ websocket = "open"
    /\ reconnect_count = 0
    /\ subscriptions \in Tables
    /\ pc = "loop"
    /\ inbox = << >>
    /\ conns = 1
    /\ server_subscribed = TRUE
    /\ next_sig = 1
    /\ read = {}
    /\ calls = << >>
    /\ delays = << >>
    /\ attempts = <<"primary">>

NextDispatch ==
    \/ ServerSend
    \/ ListenRecv

SpecDispatch == InitDispatch /\ [][NextDispatch]_vars

(***************************************************************************)
(* run() and shutdown() (main.py): the listener task and the price monitor *)
(* task side by side.  The monitor task is at mpc.at:                      *)
(*   "idle"  _monitor_prices() not called yet                              *)
(*   "test"  at the while test (line 140)                                  *)
(*   "body"  in the for loop over the open positions (line 142)            *)
(*   "exit"  price of mpc.token updated, before check_exit_conditions      *)
(*   "done"  the loop ended because running is false                       *)
(***************************************************************************)
\* line 140: while self.running; line 142 copies the open positions
MonitorTest ==
    /\ mpc.at = "test"
    /\ IF bot_running
       THEN mpc' = MonitorAt("body", "none", NoPrice) /\ todo' = get_open_positions
       ELSE mpc' = MonitorAt("done", "none", NoPrice) /\ todo' = {}
    /\ UNCHANGED <<store, last, listener, bot_running>>

\* lines 143-146: the price of the next position; 0 when it cannot be read
MonitorVisit(token) ==
    /\ mpc.at = "body" /\ token \in todo
    /\ todo' = todo \ {token}
    /\ \E current_price \in Prices :
          IF Positive(current_price)
          THEN /\ update_position_price(token, current_price)
               /\ last' = Call("update", token, TRUE, "none")
               /\ mpc' = MonitorAt("exit", token, current_price)
          ELSE UNCHANGED <<store, last, mpc>>
    /\ UNCHANGED <<listener, bot_running>>

\* lines 148-151: an exit signal is executed; an exception of _execute ends
\* the for loop and the task sleeps in the except clause (lines 155-157)
MonitorExit ==
    /\ mpc.at = "exit"
    /\ \E signal \in BOOLEAN :
          IF signal /\ has_open_position(mpc.token)
          THEN /\ \E reason \in Reasons, current_price \in Prices :
                     execute_sell(mpc.token, reason, current_price,
                                  Call("sell", mpc.token, FALSE, "none"))
               /\ \E raised \in BOOLEAN :
                     IF raised
                     THEN mpc' = MonitorAt("test", "none", NoPrice) /\ todo' = {}
                     ELSE mpc' = MonitorAt("body", "none", NoPrice) /\ UNCHANGED todo
          ELSE /\ mpc' = MonitorAt("body", "none", NoPrice)
               /\ UNCHANGED <<store, last, todo>>
    /\ UNCHANGED <<listener, bot_running>>

\* line 153: every position visited, asyncio.sleep(60)
MonitorSleep ==
    /\ mpc.at = "body" /\ todo = {}
    /\ mpc' = MonitorAt("test", "none", NoPrice)
    /\ UNCHANGED <<store, last, listener, bot_running, todo>>

\* shutdown(): both flags are cleared before the first await suspends
Shutdown ==
    /\ bot_running /\ pc # "idle"
    /\ bot_running' = FALSE
    /\ stop
    /\ UNCHANGED <<store, last, mpc, todo>>

\* run() has set running and created both tasks; the positions are the ones
\* _restore_positions loaded.
InitShutdown ==
    /\ \E restored \in SUBSET {"T1"} :
          /\ positions = [t \in restored |-> Position(Frac(1), "open")]
          /\ tracked_tokens = restored
    /\ total_trades = 0
    /\ successful_sells = 0
    /\ last = Call("init", "T1", FALSE, "none")
    /\ ListenerInit
    /\ copy_trading_enabled = FALSE
    /\ bot_running = TRUE
    /\ mpc = MonitorAt("test", "none", NoPrice)
    /\ todo = {}

ListenerStep ==
    \/ ListenExit
    \/ ListenReconnect
    \/ HandlerReconnect
    \/ ListenRecv

MonitorStep ==
    \/ MonitorTest
    \/ \E token \in Tokens : MonitorVisit(token)
    \/ MonitorExit
    \/ MonitorSleep

NextShutdown ==
    \/ Listen
    \/ ListenerStep
    \/ MonitorStep
    \/ PeerClose
    \/ Shutdown

\* Both tasks are scheduled fairly, and their awaits return or raise.
SpecShutdown ==
    /\ InitShutdown
    /\ [][NextShutdown]_vars
    /\ WF_vars(ListenerStep)
    /\ WF_vars(MonitorStep)

(***************************************************************************)
(* Properties of the listener                                              *)
(***************************************************************************)
\* C7: while running is set, no transport error ends the ingestion loop: no
\* exception leaves listen().
C7_NoExceptionLeavesListen == running => pc # "raised"

\* The delays the claim lists, by attempt number.
BackoffTable == <<2, 4, 8, 16, 32, 60, 60, 60, 60, 60>>

\* C8: the delays before consecutive failed reconnects are 2, 4, 8, 16, 32,
\* 60, 60, ..., the counter is the number of failures since the last
\* connection, zero just after a connection, so that the next failure waits
\* 2 seconds again.
C8_Backoff ==
    /\ reconnect_count = Len(delays)
    /\ Len(delays) <= Len(BackoffTable)
    /\ \A i \in 1..Len(delays) : delays[i] = BackoffTable[i]

\* After a connection, seven reconnects in a row failed: the cap was applied
\* twice.
C8_Witness == conns >= 1 /\ Len(delays) = 7 /\ delays[7] = 60

\* A step that ran _reconnect: it connected, or it recorded a failure.
ReconnectStep == conns' # conns \/ delays' # delays

\* C9: the selected endpoint never goes back from the fallback to the primary.
\* Each reconnect first tries the selected endpoint; a failure on the primary
\* selects the fallback and tries it at once; once the fallback is selected
\* it is the only endpoint tried.
C9_OneWaySwitch ==
    [][/\ ws_url = "fallback" => ws_url' = "fallback"
       /\ ReconnectStep =>
            /\ attempts'[1] = ws_url
            /\ attempts'[Len(attempts')] = ws_url'
            /\ ws_url = "fallback" => attempts' = <<"fallback">>
            /\ Len(attempts') = 2 => attempts' = <<"primary", "fallback">>
            /\ (ws_url = "primary" /\ conns' = conns) =>
                   attempts' = <<"primary", "fallback">>]_vars

\* With the fallback selected, a reconnect connected and a later one failed on
\* the fallback alone.
C9_Witness ==
    /\ ws_url = "fallback" /\ attempts = <<"fallback">>
    /\ conns >= 1 /\ Len(delays) >= 1

\* The invocations of the log callbacks for signature sig, in order.
RECURSIVE CallsFor(_, _)
CallsFor(seq, sig) ==
    IF seq = << >> THEN << >>
    ELSE IF Head(seq)[2] = sig THEN <<Head(seq)[1]>> \o CallsFor(Tail(seq), sig)
    ELSE CallsFor(Tail(seq), sig)

\* C10: every log notification the client has read from the connection was
\* passed exactly once to every log callback, in registration order.
C10_EveryNotificationRouted ==
    \A sig \in read : CallsFor(calls, sig) = raydium_callbacks

(***************************************************************************)
(* Properties of the dispatch                                              *)
(***************************************************************************)
\* The step in which listen() received the first frame of the connection, of
\* this kind, and processed it.
Processed(kind) ==
    /\ websocket = "open" /\ websocket' = "open"
    /\ inbox # << >> /\ inbox' = Tail(inbox)
    /\ Head(inbox).kind = kind

\* The invocations of every account callback, in registration order, for the
\* changed value (named sig) and this wallet.
AccountCalls(sig, wallet, value) ==
    [i \in 1..Len(copy_trade_callbacks) |->
        <<copy_trade_callbacks[i], sig, wallet, value>>]

\* The wallets whose entry in the subscription table holds id.
Holders(id) ==
    {Wallets[i] : i \in {j \in 1..Len(Wallets) :
                            /\ Wallets[j] \in DOMAIN subscriptions
                            /\ subscriptions[Wallets[j]] = id}}

\* id is the id of the log subscription.
IsLogStreamId(id) ==
    "raydium" \in DOMAIN subscriptions /\ subscriptions["raydium"] = id

\* C11: an account notification goes to every account callback with its value
\* and the wallet whose table entry holds its subscription id; one whose id
\* is unknown, or is the id of the log subscription, invokes no callback.
C11_AccountRouting ==
    [][Processed("account") =>
          LET data == Head(inbox)
          IN  IF Holders(data.id) = {} \/ IsLogStreamId(data.id)
              THEN calls' = calls
              ELSE \E wallet \in Holders(data.id) :
                      calls' = calls \o AccountCalls(data.sig, wallet, data.logs)]_vars

\* The invocations of every log callback, in registration order, for one
\* notification.
LogCalls(sig, logs) ==
    [i \in 1..Len(raydium_callbacks) |-> <<raydium_callbacks[i], sig, logs>>]

\* C12: when a callback raises during the dispatch of a notification, the
\* callbacks registered after it are still invoked for the notification, and
\* the run loop is back at its test, to receive the next frame.
C12_RaisingCallbackIsolated ==
    [][LET data == Head(inbox)
       IN  /\ (/\ Processed("logs")
               /\ data.logs > 0
               /\ Raising(data.logs) # {}) =>
                  /\ calls' = calls \o LogCalls(data.sig, data.logs)
                  /\ pc' = "loop" /\ running'
           /\ (/\ Processed("account")
               /\ Holders(data.id) # {}
               /\ Raising(data.logs) # {}) =>
                  /\ \E wallet \in Holders(data.id) :
                        calls' = calls \o AccountCalls(data.sig, wallet, data.logs)
                  /\ pc' = "loop" /\ running']_vars

\* A log notification on which the first callback raises was given to both
\* callbacks, and the next frame, an account notification on which the first
\* callback raises, was given to both account callbacks.
C12_Witness ==
    /\ Len(calls) = 4
    /\ calls[1][1] = raydium_callbacks[1] /\ calls[1][1] \in Raising(calls[1][3])
    /\ calls[2][1] = raydium_callbacks[2] /\ calls[2][2] = calls[1][2]
    /\ calls[3][1] = copy_trade_callbacks[1] /\ calls[3][1] \in Raising(calls[3][4])
    /\ calls[4][1] = copy_trade_callbacks[2] /\ calls[4][2] = calls[3][2]
    /\ pc = "loop"

\* The frames that are malformed or carry no "method".
NoMethodKinds == {"garbage", "odd", "ack", "error"}

\* C13: processing a frame that is not parseable, has an unexpected shape or
\* carries no notification method invokes no callback, leaves the
\* subscription table, the running flag and the reconnect counter unchanged,
\* and the run loop is back at its test, to receive the next frame.
C13_MalformedFrameDropped ==
    [][(\E kind \in NoMethodKinds : Processed(kind)) =>
          /\ calls' = calls
          /\ subscriptions' = subscriptions
          /\ running' = running
          /\ reconnect_count' = reconnect_count
          /\ pc' = "loop"]_vars

\* A notification was dispatched, and after it a frame that is not JSON was
\* processed.
C13_Witness ==
    /\ last.op = "process_message" /\ last.token = "garbage"
    /\ calls # << >>
    /\ pc = "loop" /\ running

(***************************************************************************)
(* Properties of the shutdown                                              *)
(***************************************************************************)
\* shutdown() has run.
ShutDown == ~bot_running /\ pc # "idle"

\* Neither task is in its loop any more.
Terminated == pc \in {"done", "raised"} /\ mpc.at = "done"

\* C14: after shutdown() the listener loop and the monitor loop, once at
\* their while test, start no new iteration, and both tasks eventually end.
C14_CooperativeShutdown ==
    /\ [][ShutDown =>
             /\ pc = "loop" => pc' \in {"loop", "done"}
             /\ mpc.at = "test" => mpc'.at \in {"test", "done"}
             /\ pc \in {"done", "raised"} => pc' = pc
             /\ mpc.at = "done" => mpc'.at = "done"]_vars
    /\ ShutDown ~> Terminated

\* shutdown() came while the listener had a connection and the monitor had
\* sold a position; both loops have ended at their test.
C14_Witness ==
    /\ ShutDown /\ pc = "done" /\ mpc.at = "done"
    /\ conns >= 1 /\ successful_sells >= 1

(***************************************************************************)
(* core/strategy.py: the three decision functions, with the configuration  *)
(* they read passed as a record.  A TradeSignal is a record; NoSignal is   *)
(* the None they return.                                                   *)
(***************************************************************************)
TradeSignal(action, token_address, amount_sol, reason, confidence, copied_from, pool_id) ==
    [action |-> action, token_address |-> token_address,
     amount_sol |-> amount_sol, reason |-> reason, confidence |-> confidence,
     copied_from |-> copied_from, pool_id |-> pool_id]

NoSignal == TradeSignal("none", "none", Frac(0), "none", Frac(0), "none", "none")

\* a <= b for fractions
Leq(a, b) == a[1] * b[2] <= b[1] * a[2]

\* min(a, b) of Python: the first argument unless the second is smaller
MinFrac(a, b) == IF Leq(a, b) THEN a ELSE b

\* Mutant: the store is not asked for an open position.
on_new_pool_analyzes_unguarded(enabled, token) == enabled

\* on_new_pool reaches analyzer.quick_check (line 69)
on_new_pool_analyzes(enabled, token) ==
    enabled /\ ~has_open_position(token)

\* on_new_pool(token_address, pool_address); enabled and position_size_sol
\* are config.strategy's, is_safe is the report of quick_check
on_new_pool_signal(enabled, position_size_sol, token, pool, is_safe) ==
    IF ~on_new_pool_analyzes(enabled, token) THEN NoSignal
    ELSE IF ~is_safe THEN NoSignal
    ELSE TradeSignal("BUY", token, position_size_sol, "new_pool", <<4, 5>>,
                     "none", pool)

\* config.exit
ExitConfig(take_profit_percent, stop_loss_percent, max_hold_time_min) ==
    [take_profit_percent |-> take_profit_percent,
     stop_loss_percent |-> stop_loss_percent,
     max_hold_time_min |-> max_hold_time_min]

SellSignal(token, reason, confidence) ==
    TradeSignal("SELL", token, Frac(0), reason, confidence, "none", "none")

\* Mutant: the hold time is tested before the price thresholds.
check_exit_conditions_time_first(token, position, current_price, exit, hold_time) ==
    IF position.status # "open" THEN NoSignal
    ELSE IF ~Positive(position.entry_price) \/ ~Positive(current_price)
    THEN NoSignal
    ELSE LET pnl_percent == PnlPercent(current_price, position.entry_price)
         IN  IF exit.max_hold_time_min > 0 /\ hold_time >= exit.max_hold_time_min
             THEN SellSignal(token, "time", <<9, 10>>)
             ELSE IF Leq(Frac(exit.take_profit_percent), pnl_percent)
             THEN SellSignal(token, "take_profit", Frac(1))
             ELSE IF /\ exit.stop_loss_percent > 0
                     /\ Leq(pnl_percent, Frac(-exit.stop_loss_percent))
             THEN SellSignal(token, "stop_loss", Frac(1))
             ELSE NoSignal

\* check_exit_conditions(position, current_price); token is
\* position.token_address, hold_time the minutes since position.entry_time
check_exit_conditions(token, position, current_price, exit, hold_time) ==
    IF position.status # "open" THEN NoSignal
    ELSE IF ~Positive(position.entry_price) \/ ~Positive(current_price)
    THEN NoSignal
    ELSE LET pnl_percent == PnlPercent(current_price, position.entry_price)
         IN  IF Leq(Frac(exit.take_profit_percent), pnl_percent)
             THEN SellSignal(token, "take_profit", Frac(1))
             ELSE IF /\ exit.stop_loss_percent > 0
                     /\ Leq(pnl_percent, Frac(-exit.stop_loss_percent))
             THEN SellSignal(token, "stop_loss", Frac(1))
             ELSE IF /\ exit.max_hold_time_min > 0
                     /\ hold_time >= exit.max_hold_time_min
             THEN SellSignal(token, "time", <<9, 10>>)
             ELSE NoSignal

\* config.copy_trading
CopyConfig(enabled, mode, fixed_amount_sol, max_sol_per_trade) ==
    [enabled |-> enabled, mode |-> mode, fixed_amount_sol |-> fixed_amount_sol,
     max_sol_per_trade |-> max_sol_per_trade]

\* amount * 0.1
Tenth(amount) == Norm(amount[1], amount[2] * 10)

\* Mutant: the proportional size is not capped.
copy_trade_amount_uncapped(copy, amount) ==
    IF copy.mode = "fixed"
    THEN MinFrac(copy.fixed_amount_sol, copy.max_sol_per_trade)
    ELSE Tenth(amount)

\* lines 111-118: the size of a copied BUY
copy_trade_amount(copy, amount) ==
    IF copy.mode = "fixed"
    THEN MinFrac(copy.fixed_amount_sol, copy.max_sol_per_trade)
    ELSE MinFrac(Tenth(amount), copy.max_sol_per_trade)

\* Mutant: a SELL is copied whether or not the token is held.
on_copy_trade_sells_unheld(copy, source_wallet, token, action, amount) ==
    IF ~copy.enabled THEN NoSignal
    ELSE IF \A i \in 1..Len(Wallets) : Wallets[i] # source_wallet THEN NoSignal
    ELSE IF action = "BUY"
    THEN IF has_open_position(token) THEN NoSignal
         ELSE TradeSignal("BUY", token, copy_trade_amount(copy, amount),
                          "copy_trade", <<7, 10>>, source_wallet, "none")
    ELSE IF action = "SELL"
    THEN TradeSignal("SELL", token, Frac(0), "copy_sell", <<7, 10>>,
                     source_wallet, "none")
    ELSE NoSignal

\* on_copy_trade(source_wallet, token_address, action, amount)
on_copy_trade(copy, source_wallet, token, action, amount) ==
    IF ~copy.enabled THEN NoSignal
    ELSE IF \A i \in 1..Len(Wallets) : Wallets[i] # source_wallet THEN NoSignal
    ELSE IF action = "BUY"
    THEN IF has_open_position(token) THEN NoSignal
         ELSE TradeSignal("BUY", token, copy_trade_amount(copy, amount),
                          "copy_trade", <<7, 10>>, source_wallet, "none")
    ELSE IF action = "SELL"
    THEN IF has_open_position(token)
         THEN TradeSignal("SELL", token, Frac(0), "copy_sell", <<7, 10>>,
                          source_wallet, "none")
         ELSE NoSignal
    ELSE NoSignal

\* The sizes config.strategy.entry.position_size_sol is drawn from.
PositionSizes == {Frac(1), Frac(2)}

\* The record of one call of a strategy function: its arguments, whether it
\* ran the analyzer, and the signal it returned.
StrategyCall(op, token, args, analyzed, signal) ==
    [op |-> op, token |-> token, ok |-> signal.action # "none",
     failure |-> "none", args |-> args, analyzed |-> analyzed,
     signal |-> signal]

\* on_new_pool is called for token and pool "P1"
OnNewPool(token) ==
    \E enabled \in BOOLEAN, is_safe \in BOOLEAN, size \in PositionSizes :
        /\ last' = StrategyCall("on_new_pool", token,
                       [enabled |-> enabled, is_safe |-> is_safe, size |-> size],
                       on_new_pool_analyzes(enabled, token),
                       on_new_pool_signal(enabled, size, token, "P1", is_safe))
        /\ UNCHANGED <<store, listener, monitor>>

\* The store when a strategy function is called: no position, or one
\* position of T1 of any status and entry price.
InitStrategy ==
    /\ \/ positions = << >> /\ tracked_tokens = {}
       \/ \E entry_price \in Prices, status \in PositionStatus :
             /\ positions = Put(<< >>, "T1", Position(entry_price, status))
             /\ tracked_tokens = {"T1"}
    /\ total_trades = 0
    /\ successful_sells = 0
    /\ last = Call("init", "T1", FALSE, "none")
    /\ ListenerInit
    /\ MonitorInit
    /\ copy_trading_enabled = FALSE

\* The thresholds config.exit is drawn from: take profit 50 or 100 percent,
\* stop loss off, 10 or 50 percent, hold time off or 60 minutes.
ExitConfigs ==
    {ExitConfig(tp, sl, mh) : tp \in {50, 100}, sl \in {0, 10, 50}, mh \in {0, 60}}

\* Minutes a position has been held.
HoldTimes == {0, 60}

\* check_exit_conditions is called for the position of token
CheckExit(token) ==
    /\ token \in DOMAIN positions
    /\ \E current_price \in Prices, exit \in ExitConfigs, hold_time \in HoldTimes :
          last' = StrategyCall("check_exit_conditions", token,
                      [current_price |-> current_price, exit |-> exit,
                       hold_time |-> hold_time],
                      FALSE,
                      check_exit_conditions(token, positions[token], current_price,
                                            exit, hold_time))
    /\ UNCHANGED <<store, listener, monitor>>

\* What config.copy_trading is drawn from.
CopyConfigs ==
    {CopyConfig(enabled, mode, fixed, max) :
        enabled \in BOOLEAN, mode \in {"fixed", "proportional"},
        fixed \in {<<1, 10>>, Frac(1)}, max \in {<<1, 2>>}}

\* The wallets a copy-trade event may come from; the last is not watched.
SourceWallets == {Wallets[1], "W9"}

\* Amounts of the source's trade, in SOL.
SourceAmounts == {Frac(1), Frac(10)}

\* on_copy_trade is called for a trade of token
OnCopyTrade(token) ==
    \E copy \in CopyConfigs, source_wallet \in SourceWallets,
       action \in {"BUY", "SELL", "HOLD"}, amount \in SourceAmounts :
        /\ last' = StrategyCall("on_copy_trade", token,
                       [copy |-> copy, source_wallet |-> source_wallet,
                        action |-> action, amount |-> amount],
                       FALSE,
                       on_copy_trade(copy, source_wallet, token, action, amount))
        /\ UNCHANGED <<store, listener, monitor>>

NextStrategy ==
    \E token \in Tokens :
        \/ OnNewPool(token)
        \/ CheckExit(token)
        \/ OnCopyTrade(token)

SpecStrategy == InitStrategy /\ [][NextStrategy]_vars

(***************************************************************************)
(* Properties of the strategy                                              *)
(***************************************************************************)
\* token has a position of status OPEN or PENDING.
OpenOrPending(token) ==
    token \in DOMAIN positions /\ positions[token].status \in {"open", "pending"}

C16_ExitPriority ==
    last.op = "check_exit_conditions" =>
        LET pos == positions[last.token]
            exit == last.args.exit
            entry == pos.entry_price
            price == last.args.current_price
            \* (price - entry) / entry * 100 >= take_profit_percent
            take_profit ==
                (price[1] * entry[2] - entry[1] * price[2]) * 100
                    >= exit.take_profit_percent * entry[1] * price[2]
            stop_loss ==
                /\ exit.stop_loss_percent > 0
                /\ (price[1] * entry[2] - entry[1] * price[2]) * 100
                       <= (-exit.stop_loss_percent) * entry[1] * price[2]
            time == /\ exit.max_hold_time_min > 0
                    /\ last.args.hold_time >= exit.max_hold_time_min
        IN  IF pos.status # "open" \/ entry[1] <= 0 \/ price[1] <= 0
            THEN last.signal = NoSignal
            ELSE /\ take_profit =>
                       last.signal = SellSignal(last.token, "take_profit", Frac(1))
                 /\ (~take_profit /\ stop_loss) => last.signal.reason = "stop_loss"
                 /\ (~take_profit /\ ~stop_loss /\ time) => last.signal.reason = "time"
                 /\ (~take_profit /\ ~stop_loss /\ ~time) => last.signal = NoSignal
                 /\ last.signal # NoSignal =>
                       /\ last.signal.action = "SELL"
                       /\ last.signal.token_address = last.token
                       /\ last.signal.amount_sol = Frac(0)

\* A position held for the maximum hold time and past the take-profit
\* threshold gave a take-profit signal.
C16_Witness ==
    /\ last.op = "check_exit_conditions"
    /\ last.args.exit.max_hold_time_min > 0
    /\ last.args.hold_time >= last.args.exit.max_hold_time_min
    /\ last.signal.reason = "take_profit"
    /\ last.signal.confidence = Frac(1)

\* source_wallet is in config.copy_trading.target_wallets.
Watched(source_wallet) == \E i \in 1..Len(Wallets) : Wallets[i] = source_wallet

\* C17: on_copy_trade returns no signal when copy trading is disabled or the
\* source wallet is not watched; none for a BUY of a token already held; for
\* a SELL, a SELL signal of amount 0 if and only if the token is held, and no
\* signal otherwise.
C17_CopyTradeGuards ==
    last.op = "on_copy_trade" =>
        LET args == last.args
            held == /\ last.token \in DOMAIN positions
                    /\ positions[last.token].status = "open"
        IN  /\ (~args.copy.enabled \/ ~Watched(args.source_wallet)) =>
                  last.signal = NoSignal
            /\ (args.action = "BUY" /\ held) => last.signal = NoSignal
            /\ args.action = "SELL" =>
                  IF args.copy.enabled /\ Watched(args.source_wallet) /\ held
                  THEN /\ last.signal.action = "SELL"
                       /\ last.signal.token_address = last.token
                       /\ last.signal.amount_sol = Frac(0)
                  ELSE last.signal = NoSignal

\* A SELL of a held token by a watched wallet was copied.
C17_Witness ==
    /\ last.op = "on_copy_trade" /\ last.args.action = "SELL"
    /\ last.signal.action = "SELL"
    /\ positions[last.token].status = "open"

\* C18: the amount of a BUY signal of on_copy_trade is min(fixed amount,
\* maximum per trade) in mode "fixed" and min(source amount * 0.1, maximum
\* per trade) in mode "proportional"; it never exceeds the maximum per trade;
\* the signal has confidence 0.7 and carries the source wallet.
C18_CopyTradeAmount ==
    (last.op = "on_copy_trade" /\ last.signal.action = "BUY") =>
        LET copy == last.args.copy
            wanted == IF copy.mode = "fixed"
                      THEN copy.fixed_amount_sol
                      ELSE <<last.args.amount[1], last.args.amount[2] * 10>>
            amount == last.signal.amount_sol
        IN  /\ amount[1] * copy.max_sol_per_trade[2]
                   <= copy.max_sol_per_trade[1] * amount[2]
            /\ amount[1] * wanted[2] <= wanted[1] * amount[2]
            /\ \/ amount[1] * wanted[2] = wanted[1] * amount[2]
               \/ amount = copy.max_sol_per_trade
            /\ last.signal.confidence = <<7, 10>>
            /\ last.signal.copied_from = last.args.source_wallet

\* A proportional BUY whose tenth of the source amount is above the maximum
\* per trade got the maximum.
C18_Witness ==
    /\ last.op = "on_copy_trade" /\ last.signal.action = "BUY"
    /\ last.args.copy.mode = "proportional"
    /\ last.args.amount = Frac(10)
    /\ last.signal.amount_sol = last.args.copy.max_sol_per_trade

(***************************************************************************)
(* core/analyzer.py: quick_check.  The mint account's data is a sequence   *)
(* of bytes; byte offset k of the source is element k + 1.                 *)
(***************************************************************************)
\* Optional[bool] is "true", "false" or "none".
SafetyReport(is_safe, has_mint_authority, has_freeze_authority, risks) ==
    [is_safe |-> is_safe, has_mint_authority |-> has_mint_authority,
     has_freeze_authority |-> has_freeze_authority, risks |-> risks]

\* int.from_bytes(data[from:from + 4], byteorder='little')
RECURSIVE from_bytes_little(_, _, _)
from_bytes_little(data, from, n) ==
    IF n = 0 THEN 0
    ELSE data[from + 1] + 256 * from_bytes_little(data, from + 1, n - 1)

\* Mutant: only the first byte of the option tag is read.
option_tag_first_byte(data, from) == data[from + 1]

\* The Option<u32> tag at offset from
option_tag(data, from) == from_bytes_little(data, from, 4)

\* config.strategy.filters
Filters(check_mint_authority, check_freeze_authority) ==
    [check_mint_authority |-> check_mint_authority,
     check_freeze_authority |-> check_freeze_authority]

\* What quick_check did: raised is TRUE if an exception left it.
Returned(report) == [raised |-> FALSE, report |-> report]
Raised == [raised |-> TRUE, report |-> SafetyReport(FALSE, "none", "none", << >>)]

\* Mutant: an RPC failure is not caught.
quick_check_rpc_uncaught(fetch, data, filters) ==
    IF fetch = "rpc_error" THEN Raised
    ELSE IF fetch \in {"invalid_address", "bad_data"}
    THEN Returned(SafetyReport(FALSE, "none", "none", <<"error">>))
    ELSE Returned(SafetyReport(FALSE, "none", "none", <<"not_found">>))

\* quick_check(token_address).  fetch is what reading the account gives:
\*   "invalid_address"  Pubkey.from_string raises
\*   "rpc_error"        get_account_info raises
\*   "bad_data"         bytes(resp.value.data) raises
\*   "missing"          resp.value is None
\*   "found"            resp.value.data is data
quick_check(fetch, data, filters) ==
    IF fetch \in {"invalid_address", "rpc_error", "bad_data"}
    THEN Returned(SafetyReport(FALSE, "none", "none", <<"error">>))
    ELSE IF fetch = "missing"
    THEN Returned(SafetyReport(FALSE, "none", "none", <<"not_found">>))
    ELSE LET has_mint == IF Len(data) >= 4
                         THEN IF option_tag(data, 0) # 0 THEN "true" ELSE "false"
                         ELSE "none"
             risks1 == IF filters.check_mint_authority /\ has_mint = "true"
                       THEN <<"mint_authority">>
                       ELSE << >>
             has_freeze == IF Len(data) >= 50
                           THEN IF option_tag(data, 46) # 0 THEN "true" ELSE "false"
                           ELSE "none"
             risks == IF filters.check_freeze_authority /\ has_freeze = "true"
                      THEN Append(risks1, "freeze_authority")
                      ELSE risks1
         IN  Returned(SafetyReport(Len(risks) = 0, has_mint, has_freeze, risks))

\* The values of an option tag's four bytes: 0, 1, 256, 2^24.
Tags == {<<0, 0, 0, 0>>, <<1, 0, 0, 0>>, <<0, 1, 0, 0>>, <<0, 0, 0, 1>>}

\* The lengths of the account data: empty, around the two tags, a full mint.
DataLengths == {0, 3, 4, 49, 50, 82}

\* Account data of this length with these tags at offsets 0 and 46.
MintData(length, mint_tag, freeze_tag) ==
    [i \in 1..length |-> IF i <= 4 THEN mint_tag[i]
                         ELSE IF i \in 47..50 THEN freeze_tag[i - 46]
                         ELSE 0]

\* quick_check is called for token
QuickCheck(token) ==
    \E fetch \in {"invalid_address", "rpc_error", "bad_data", "missing", "found"},
       length \in DataLengths, mint_tag \in Tags, freeze_tag \in Tags,
       check_mint \in BOOLEAN, check_freeze \in BOOLEAN :
        LET data == IF fetch = "found"
                    THEN MintData(length, mint_tag, freeze_tag)
                    ELSE << >>
            filters == Filters(check_mint, check_freeze)
            result == quick_check(fetch, data, filters)
        IN  /\ last' = [op |-> "quick_check", token |-> token,
                        ok |-> ~result.raised,
                        failure |-> IF result.raised THEN "raised" ELSE "none",
                        args |-> [fetch |-> fetch, data |-> data, filters |-> filters],
                        report |-> result.report]
            /\ UNCHANGED <<store, listener, monitor>>

NextAnalyzer == \E token \in Tokens : QuickCheck(token)

SpecAnalyzer == Init /\ [][NextAnalyzer]_vars

(***************************************************************************)
(* Properties of the analyzer                                              *)
(***************************************************************************)
\* C19: quick_check fails closed: when the mint account is missing or an
\* exception occurs while it is read, quick_check raises nothing and returns
\* a report that is not safe and has a non-empty risk list.
C19_FailsClosed ==
    last.op = "quick_check" =>
        /\ last.ok
        /\ last.args.fetch # "found" =>
              /\ ~last.report.is_safe
              /\ Len(last.report.risks) > 0

\* The RPC failed and the report is unsafe with the error as its one risk.
C19_Witness ==
    /\ last.op = "quick_check" /\ last.args.fetch = "rpc_error"
    /\ last.ok /\ ~last.report.is_safe /\ last.report.risks = <<"error">>

\* The bytes of data at offsets from .. from + 3 are not all zero.
TagSet(data, from) == \E i \in 1..4 : data[from + i] # 0

\* risk is one of the report's risk lines.
HasRisk(report, risk) == \E i \in 1..Len(report.risks) : report.risks[i] = risk

\* C20: in every report is_safe holds iff the risk list is empty; for an
\* account that was read, the risk line of an authority is present exactly
\* when its tag is non-zero and its filter is enabled, and the freeze flag
\* is undetermined when the data is shorter than 50 bytes.
C20_ReportConsistent ==
    last.op = "quick_check" =>
        LET report == last.report
            data == last.args.data
            filters == last.args.filters
        IN  /\ report.is_safe <=> (report.risks = << >>)
            /\ last.args.fetch = "found" =>
                  /\ HasRisk(report, "mint_authority") <=>
                        /\ Len(data) >= 4 /\ TagSet(data, 0)
                        /\ filters.check_mint_authority
                  /\ HasRisk(report, "freeze_authority") <=>
                        /\ Len(data) >= 50 /\ TagSet(data, 46)
                        /\ filters.check_freeze_authority
                  /\ Len(data) < 50 => report.has_freeze_authority = "none"
                  /\ Len(report.risks) <= 2

\* An account of 49 bytes with a mint tag of 256: the mint risk is reported
\* and the freeze flag is undetermined.
C20_Witness ==
    /\ last.op = "quick_check" /\ last.args.fetch = "found"
    /\ Len(last.args.data) = 49 /\ last.args.data[2] = 1
    /\ last.report.risks = <<"mint_authority">>
    /\ last.report.has_freeze_authority = "none"
    /\ ~last.report.is_safe

(***************************************************************************)
(* Properties of the sell flow                                             *)
(***************************************************************************)
\* The step is a SELL of token handed to the executor.
SellOf(token) == last'.op = "sell" /\ last'.token = token

\* C21: the sell flow requires an OPEN position: for a token with no
\* position or a position that is not OPEN it reports failure and leaves
\* the store unchanged; for an OPEN position it closes the position with the
\* price it read as exit price and the signal's reason, and reports success.
C21_SellRequiresOpen ==
    [][\A token \in Tokens :
          SellOf(token) =>
              IF token \notin DOMAIN positions \/ positions[token].status # "open"
              THEN ~last'.ok /\ UNCHANGED store
              ELSE /\ last'.ok
                   /\ positions'[token].status = "closed"
                   /\ positions'[token].exit_price = last'.price
                   /\ positions'[token].exit_reason = last'.reason
                   /\ positions'[token].entry_price = positions[token].entry_price
                   /\ token \notin tracked_tokens'
                   /\ \A other \in DOMAIN positions \ {token} :
                         positions'[other] = positions[other]
                   /\ DOMAIN positions' = DOMAIN positions
                   /\ total_trades' = total_trades]_vars

\* A sell succeeded and the record carries the price read and the reason.
C21_Witness ==
    /\ last.op = "sell" /\ last.ok
    /\ positions[last.token].status = "closed"
    /\ positions[last.token].exit_price = last.price
    /\ positions[last.token].exit_reason = last.reason
    /\ Positive(last.price)

(***************************************************************************)
(* Properties of the buy flow's associated accounts                        *)
(***************************************************************************)
\* The account was found present, or ensure_ata returned an instruction
\* creating it.
AtaExists(found, returned) == found = "present" \/ returned[2] # "none"

\* C22: whenever the buy flow sends a swap transaction, the wallet's
\* wrapped-SOL associated account and its associated account for the token
\* both exist (found present or provisioned); a buy for which one of them
\* neither exists nor is created sends no swap.
C22_AtasExistBeforeSwap ==
    (last.op = "buy" /\ last.submitted) =>
        /\ AtaExists(last.ata_sol, last.user_source)
        /\ AtaExists(last.ata_token, last.user_dest)

(***************************************************************************)
(* solana/raydium.py: account parsers and pool key resolution.  Account    *)
(* data is a sequence of bytes (byte offset k is element k + 1); a Pubkey  *)
(* is the sequence of its 32 bytes.                                        *)
(***************************************************************************)
\* data[from:to] (the slice is clipped to the data)
Slice(data, from, to) ==
    IF from >= Len(data) THEN << >> ELSE SubSeq(data, from + 1, Min(to, Len(data)))

\* data[-n:]
Tail_n(data, n) ==
    IF n >= Len(data) THEN data ELSE SubSeq(data, Len(data) - n + 1, Len(data))

\* The key whose 32 bytes are all b
Key(b) == [i \in 1..32 |-> b]

\* Pubkey.from_string("11111111111111111111111111111111")
zero_key == Key(0)

\* What a parser or the loader returns for "nothing" (None)
None == [found |-> FALSE]

\* AmmInfoParser.OFFSETS (the fields that are read)
OFFSETS ==
    [base_decimal |-> 40, quote_decimal |-> 48, base_mint |-> 264,
     quote_mint |-> 296, base_vault |-> 328, quote_vault |-> 360,
     open_orders |-> 520, market_id |-> 552, market_program_id |-> 584,
     target_orders |-> 616]

\* read_pubkey(offset)
read_pubkey(data, offset) == Slice(data, offset, offset + 32)

\* struct.unpack_from('<Q', data, offset)[0]
unpack_u64(data, offset) == from_bytes_little(data, offset, 8)

\* Mutant: the length of the buffer is not checked.
amm_parse_unchecked(data, amm_id) ==
    [found |-> TRUE, amm_id |-> amm_id, amm_authority |-> "amm_authority",
     amm_open_orders |-> read_pubkey(data, OFFSETS.open_orders),
     amm_target_orders |-> read_pubkey(data, OFFSETS.target_orders),
     pool_base_token_account |-> read_pubkey(data, OFFSETS.base_vault),
     pool_quote_token_account |-> read_pubkey(data, OFFSETS.quote_vault),
     base_mint |-> read_pubkey(data, OFFSETS.base_mint),
     quote_mint |-> read_pubkey(data, OFFSETS.quote_mint),
     base_decimals |-> IF Len(data) >= 56 THEN unpack_u64(data, OFFSETS.base_decimal) ELSE 0,
     quote_decimals |-> IF Len(data) >= 56 THEN unpack_u64(data, OFFSETS.quote_decimal) ELSE 0,
     serum_program_id |-> read_pubkey(data, OFFSETS.market_program_id),
     serum_market |-> read_pubkey(data, OFFSETS.market_id)]

\* AmmInfoParser.parse
amm_parse(data, amm_id) ==
    IF Len(data) < 648 THEN None
    ELSE [found |-> TRUE, amm_id |-> amm_id, amm_authority |-> "amm_authority",
          amm_open_orders |-> read_pubkey(data, OFFSETS.open_orders),
          amm_target_orders |-> read_pubkey(data, OFFSETS.target_orders),
          pool_base_token_account |-> read_pubkey(data, OFFSETS.base_vault),
          pool_quote_token_account |-> read_pubkey(data, OFFSETS.quote_vault),
          base_mint |-> read_pubkey(data, OFFSETS.base_mint),
          quote_mint |-> read_pubkey(data, OFFSETS.quote_mint),
          base_decimals |-> unpack_u64(data, OFFSETS.base_decimal),
          quote_decimals |-> unpack_u64(data, OFFSETS.quote_decimal),
          serum_program_id |-> read_pubkey(data, OFFSETS.market_program_id),
          serum_market |-> read_pubkey(data, OFFSETS.market_id)]

\* The dict both branches of SerumMarketParser return
SerumKeys(base_vault, quote_vault, vault_signer, event_queue, bids, asks) ==
    [found |-> TRUE, serum_base_vault |-> base_vault,
     serum_quote_vault |-> quote_vault, serum_vault_signer |-> vault_signer,
     serum_event_queue |-> event_queue, serum_bids |-> bids, serum_asks |-> asks]

\* not all(b == 0 for b in chunk)
NonZero(chunk) == \E i \in 1..Len(chunk) : chunk[i] # 0

\* The loop of _parse_fallback from offset i on: the list pubkeys grows by
\* every chunk that is not all zero and is neither vault.
RECURSIVE fallback_scan(_, _, _, _, _)
fallback_scan(data, i, base_vault, quote_vault, pubkeys) ==
    IF i >= Len(data) - 32 THEN pubkeys
    ELSE LET chunk == Slice(data, i, i + 32)
         IN  fallback_scan(data, i + 32, base_vault, quote_vault,
                           IF /\ NonZero(chunk)
                              /\ chunk # base_vault /\ chunk # quote_vault
                           THEN Append(pubkeys, chunk)
                           ELSE pubkeys)

\* SerumMarketParser._parse_fallback
parse_fallback(data, base_vault, quote_vault, vault_signer) ==
    LET pubkeys == fallback_scan(data, 0, base_vault, quote_vault, << >>)
        n == Len(pubkeys)
    IN  IF n >= 3
        THEN SerumKeys(base_vault, quote_vault, vault_signer,
                       pubkeys[n - 2], pubkeys[n - 1], pubkeys[n])
        ELSE None

\* Pubkey.find_program_address([bytes(market_id)], program_id)[0]
vault_signer_of(market_id, program_id) == <<"vault_signer", market_id, program_id>>

\* TRUE iff SerumMarketParser.parse hands the buffer to _parse_fallback
parse_uses_fallback(data) ==
    /\ Len(data) >= 388
    /\ LET last_96 == Tail_n(data, 96)
       IN  \/ Slice(last_96, 0, 32) = zero_key
           \/ Slice(last_96, 32, 64) = zero_key
           \/ Slice(last_96, 64, 96) = zero_key

\* Mutant: the three trailing keys are taken as (bids, asks, event queue).
serum_parse_v3_order(data, market_id, program_id) ==
    IF Len(data) < 388 THEN None
    ELSE LET base_vault == Slice(data, 112, 144)
             quote_vault == Slice(data, 160, 192)
             vault_signer == vault_signer_of(market_id, program_id)
             last_96 == Tail_n(data, 96)
         IN  IF parse_uses_fallback(data)
             THEN parse_fallback(data, base_vault, quote_vault, vault_signer)
             ELSE SerumKeys(base_vault, quote_vault, vault_signer,
                            Slice(last_96, 64, 96), Slice(last_96, 0, 32),
                            Slice(last_96, 32, 64))

\* SerumMarketParser.parse
serum_parse(data, market_id, program_id) ==
    IF Len(data) < 388 THEN None
    ELSE LET base_vault == Slice(data, 112, 144)
             quote_vault == Slice(data, 160, 192)
             vault_signer == vault_signer_of(market_id, program_id)
             last_96 == Tail_n(data, 96)
             addr1 == Slice(last_96, 0, 32)
             addr2 == Slice(last_96, 32, 64)
             addr3 == Slice(last_96, 64, 96)
         IN  IF addr1 # zero_key /\ addr2 # zero_key /\ addr3 # zero_key
             THEN SerumKeys(base_vault, quote_vault, vault_signer,
                            addr1, addr2, addr3)
             ELSE parse_fallback(data, base_vault, quote_vault, vault_signer)

\* What get_account_info answers: state is "error" (the call raises),
\* "missing" (value None) or "found" with the account's data.
Account(state, data) == [state |-> state, data |-> data]

\* RaydiumPoolKeys(...)
RaydiumPoolKeys(amm_info, serum_keys) ==
    [found |-> TRUE,
     amm_id |-> amm_info.amm_id,
     amm_authority |-> amm_info.amm_authority,
     amm_open_orders |-> amm_info.amm_open_orders,
     amm_target_orders |-> amm_info.amm_target_orders,
     pool_base_token_account |-> amm_info.pool_base_token_account,
     pool_quote_token_account |-> amm_info.pool_quote_token_account,
     base_mint |-> amm_info.base_mint,
     quote_mint |-> amm_info.quote_mint,
     base_decimals |-> amm_info.base_decimals,
     quote_decimals |-> amm_info.quote_decimals,
     serum_program_id |-> amm_info.serum_program_id,
     serum_market |-> amm_info.serum_market,
     serum_bids |-> serum_keys.serum_bids,
     serum_asks |-> serum_keys.serum_asks,
     serum_event_queue |-> serum_keys.serum_event_queue,
     serum_coin_vault |-> serum_keys.serum_base_vault,
     serum_pc_vault |-> serum_keys.serum_quote_vault,
     serum_vault_signer |-> serum_keys.serum_vault_signer]

\* What load_pool_keys did: the keys it returned (or None), the addresses
\* it asked get_account_info for, in order, and whether an exception left it.
Loaded(keys, reads) == [keys |-> keys, reads |-> reads, raised |-> FALSE]

\* load_pool_keys(amm_id); amm is the account at amm_id, market the account
\* at whatever address the second get_account_info is asked for.
load_pool_keys(amm_id, amm, market) ==
    IF amm.state = "error" THEN Loaded(None, <<amm_id>>)
    ELSE IF amm.state = "missing" THEN Loaded(None, <<amm_id>>)
    ELSE LET amm_info == amm_parse(amm.data, amm_id)
         IN  IF ~amm_info.found THEN Loaded(None, <<amm_id>>)
             ELSE LET reads == <<amm_id, amm_info.serum_market>>
                      serum_keys == serum_parse(market.data, amm_info.serum_market,
                                                amm_info.serum_program_id)
                  IN  IF market.state = "error" THEN Loaded(None, reads)
                      ELSE IF market.state = "missing" THEN Loaded(None, reads)
                      ELSE IF ~serum_keys.found THEN Loaded(None, reads)
                      ELSE Loaded(RaydiumPoolKeys(amm_info, serum_keys), reads)

(***************************************************************************)
(* Inputs of the parsers and of the loader                                 *)
(***************************************************************************)
\* An AmmInfo buffer of this length: decimals 6 and 9, every key read by
\* the parser filled with a byte of its own, the market id with market_byte.
AmmData(length, market_byte) ==
    [i \in 1..length |->
        LET k == i - 1
        IN  IF k = 40 THEN 6
            ELSE IF k = 48 THEN 9
            ELSE IF k \in 264..295 THEN 11
            ELSE IF k \in 296..327 THEN 12
            ELSE IF k \in 328..359 THEN 13
            ELSE IF k \in 360..391 THEN 14
            ELSE IF k \in 520..551 THEN 15
            ELSE IF k \in 552..583 THEN market_byte
            ELSE IF k \in 584..615 THEN 17
            ELSE IF k \in 616..647 THEN 18
            ELSE 0]

\* A Market buffer of this length: base vault Key(1) at 112, quote vault
\* Key(2) at 160, the bytes from 192 up to the tail all fill, and the three
\* trailing keys Key(tail[1]), Key(tail[2]), Key(tail[3]).
SerumData(length, fill, tail) ==
    [i \in 1..length |->
        LET k == i - 1
        IN  IF k >= length - 32 THEN tail[3]
            ELSE IF k >= length - 64 THEN tail[2]
            ELSE IF k >= length - 96 THEN tail[1]
            ELSE IF k \in 112..143 THEN 1
            ELSE IF k \in 160..191 THEN 2
            ELSE IF k >= 192 THEN fill
            ELSE 0]

\* Lengths around the parsers' minimum lengths; 752 is a full AmmInfo, 416
\* a multiple of 32.
AmmLengths == {0, 647, 648, 752}
MarketLengths == {0, 387, 388, 416, 420}
MarketBytes == {16, 26}
FillBytes == {0, 1, 2, 3}
TailBytes == {0, 1, 3, 4}
Tails == TailBytes \X TailBytes \X TailBytes

AmmArgs ==
    {[op |-> "amm_args", length |-> n, market_byte |-> m] :
        n \in AmmLengths, m \in MarketBytes}

MarketArgs ==
    {[op |-> "serum_args", length |-> n, fill |-> f, tail |-> t] :
        n \in MarketLengths, f \in FillBytes, t \in Tails}

\* The two accounts a load_pool_keys call meets.  Data that is never
\* looked at is empty.
PoolArgs ==
    LET amms == {[state |-> "error", length |-> 0, market_byte |-> 16],
                 [state |-> "missing", length |-> 0, market_byte |-> 16]}
                \cup {[state |-> "found", length |-> n, market_byte |-> m] :
                         n \in AmmLengths, m \in MarketBytes}
        markets == {[state |-> "error", length |-> 0, fill |-> 0, tail |-> <<0, 0, 0>>],
                    [state |-> "missing", length |-> 0, fill |-> 0, tail |-> <<0, 0, 0>>]}
                   \cup {[state |-> "found", length |-> n, fill |-> f, tail |-> t] :
                            n \in MarketLengths, f \in {0, 3},
                            t \in {<<3, 1, 3>>, <<0, 1, 3>>, <<0, 0, 0>>}}
    IN  {[op |-> "pool_args", amm |-> a, market |-> m] : a \in amms, m \in markets}

\* The account an answer of PoolArgs stands for
AmmAccount(a) == Account(a.state, AmmData(a.length, a.market_byte))
MarketAccount(m) == Account(m.state, SerumData(m.length, m.fill, m.tail))

InitPool ==
    /\ positions = << >>
    /\ tracked_tokens = {}
    /\ total_trades = 0
    /\ successful_sells = 0
    /\ last \in AmmArgs \cup MarketArgs \cup PoolArgs
    /\ ListenerInit
    /\ MonitorInit
    /\ copy_trading_enabled = FALSE

\* AmmInfoParser.parse is called
ParseAmm ==
    /\ last.op = "amm_args"
    /\ last' = [op |-> "amm_parse", args |-> last,
                result |-> amm_parse(AmmData(last.length, last.market_byte), "amm")]
    /\ UNCHANGED <<store, listener, monitor>>

\* SerumMarketParser.parse is called
ParseMarket ==
    /\ last.op = "serum_args"
    /\ LET data == SerumData(last.length, last.fill, last.tail)
       IN  last' = [op |-> "serum_parse", args |-> last,
                    fallback |-> parse_uses_fallback(data),
                    result |-> serum_parse(data, "market", "program")]
    /\ UNCHANGED <<store, listener, monitor>>

\* RaydiumPoolLoader.load_pool_keys is called
LoadPoolKeys ==
    /\ last.op = "pool_args"
    /\ LET loaded == load_pool_keys("amm", AmmAccount(last.amm),
                                    MarketAccount(last.market))
       IN  last' = [op |-> "load_pool_keys", args |-> last,
                    keys |-> loaded.keys, reads |-> loaded.reads,
                    raised |-> loaded.raised]
    /\ UNCHANGED <<store, listener, monitor>>

NextPool == ParseAmm \/ ParseMarket \/ LoadPoolKeys

SpecPool == InitPool /\ [][NextPool]_vars

(***************************************************************************)
(* Properties of pool key resolution                                       *)
(***************************************************************************)
\* The 32-byte windows of data at offsets 0, 32, 64, ... that lie inside it.
Windows(data) == {k \in 0..Len(data) : k % 32 = 0 /\ k + 32 <= Len(data)}

\* The window of data at offset k
Window(data, k) == [i \in 1..32 |-> data[k + i]]

\* The windows holding a value that is not all zero and is neither vault.
Candidates(data) ==
    {k \in Windows(data) :
        /\ \E i \in 1..32 : data[k + i] # 0
        /\ Window(data, k) # Window(data, 112)
        /\ Window(data, k) # Window(data, 160)}

\* The distinct values of the candidate windows.
CandidateValues(data) == {Window(data, k) : k \in Candidates(data)}

\* One of the three trailing keys of the buffer is all zero.
ZeroInTail(data) ==
    \E j \in 1..3 : \A i \in 1..32 : data[Len(data) - 32 * j + i] = 0

\* A bundle is complete: every key of it is a key of 32 bytes.
Complete(keys) ==
    \A k \in {keys.amm_open_orders, keys.amm_target_orders,
              keys.pool_base_token_account, keys.pool_quote_token_account,
              keys.base_mint, keys.quote_mint, keys.serum_program_id,
              keys.serum_market, keys.serum_bids, keys.serum_asks,
              keys.serum_event_queue, keys.serum_coin_vault,
              keys.serum_pc_vault} : Len(k) = 32

\* C23: pool key resolution is all-or-nothing and never raises: a parser
\* gives no result for a buffer below its minimum length (648, 388);
\* load_pool_keys returns None when an account is missing, a buffer is too
\* short or the fallback has fewer than three candidates, and a complete
\* bundle otherwise; the market account is read only after the AMM account
\* was parsed, at the market id taken from it.
C23_AllOrNothing ==
    /\ (last.op = "amm_parse" /\ last.args.length < 648) => ~last.result.found
    /\ (last.op = "serum_parse" /\ last.args.length < 388) => ~last.result.found
    /\ last.op = "load_pool_keys" =>
          LET amm == last.args.amm
              market == last.args.market
              amm_ok == amm.state = "found" /\ amm.length >= 648
              data == SerumData(market.length, market.fill, market.tail)
              market_ok ==
                  /\ market.state = "found" /\ market.length >= 388
                  /\ ZeroInTail(data) => Cardinality(Candidates(data)) >= 3
          IN  /\ ~last.raised
              /\ ~(amm_ok /\ market_ok) => ~last.keys.found
              /\ last.keys.found => Complete(last.keys)
              /\ IF amm_ok
                 THEN last.reads = <<"amm", Key(amm.market_byte)>>
                 ELSE last.reads = <<"amm">>

\* The AMM account parsed, the market account was read and was one byte
\* short: nothing is returned.
C23_Witness ==
    /\ last.op = "load_pool_keys"
    /\ last.args.amm.state = "found" /\ last.args.amm.length = 648
    /\ last.args.market.state = "found" /\ last.args.market.length = 387
    /\ Len(last.reads) = 2 /\ ~last.keys.found

\* The buffer the parser was called with
ParsedMarket == SerumData(last.args.length, last.args.fill, last.args.tail)

\* C24: for every market buffer of at least 388 bytes whose last 96 bytes
\* are all non-zero, the parser returns the three trailing 32-byte keys as
\* (event queue, bids, asks), in that order, and the fallback scan is not used.
C24_TailParse ==
    (/\ last.op = "serum_parse"
     /\ last.args.length >= 388
     /\ \A i \in 1..96 : ParsedMarket[last.args.length - 96 + i] # 0) =>
        /\ last.result.found
        /\ last.result.serum_event_queue = Window(ParsedMarket, last.args.length - 96)
        /\ last.result.serum_bids = Window(ParsedMarket, last.args.length - 64)
        /\ last.result.serum_asks = Window(ParsedMarket, last.args.length - 32)
        /\ ~last.fallback

\* A buffer of 420 bytes ending in three different keys was parsed.
C24_Witness ==
    /\ last.op = "serum_parse" /\ last.args.length = 420
    /\ last.args.tail = <<1, 3, 4>>
    /\ last.result.found /\ ~last.fallback
    /\ last.result.serum_event_queue = Key(1)
    /\ last.result.serum_bids = Key(3)
    /\ last.result.serum_asks = Key(4)

\* C25: when one of the three trailing keys is all zero, the fallback scans
\* every 32-byte-aligned window of the buffer; the three keys it returns are
\* values of such windows, pairwise distinct, non-zero and different from
\* both vaults, and it fails exactly when fewer than three distinct such
\* values exist.
C25_FallbackScan ==
    (/\ last.op = "serum_parse"
     /\ last.args.length >= 388
     /\ ZeroInTail(ParsedMarket)) =>
        /\ last.fallback
        /\ last.result.found <=> Cardinality(CandidateValues(ParsedMarket)) >= 3
        /\ last.result.found =>
              LET returned == <<last.result.serum_event_queue,
                                last.result.serum_bids, last.result.serum_asks>>
              IN  /\ \A j \in 1..3 : returned[j] \in CandidateValues(ParsedMarket)
                  /\ returned[1] # returned[2]
                  /\ returned[1] # returned[3]
                  /\ returned[2] # returned[3]

(***************************************************************************)
(* calculate_swap_amounts as a function: an amount <<k, e>> is k * 10^e.   *)
(***************************************************************************)
AmountsIn == {<<0, 0>>, <<1, 0>>, <<1, 6>>, <<1, 9>>, <<2, 14>>, <<9, 18>>}
ReservesIn == {<<0, 0>>, <<1, 0>>, <<1, 9>>, <<1, 10>>}
ReservesOut == {<<0, 0>>, <<3, 0>>, <<2, 9>>, <<1, 14>>, <<1, 15>>, <<1, 19>>}

\* The number an amount stands for
Value(amount) == Big(amount[1], amount[2])

SwapArgs ==
    {[op |-> "swap_args", amount_in |-> a, reserve_in |-> ri, reserve_out |-> ro] :
        a \in AmountsIn, ri \in ReservesIn, ro \in ReservesOut}

\* Two amounts, the first not above the second, for the same reserves
AmountPairs ==
    {[op |-> "swap_pair_args", amount_in |-> a, larger |-> b,
      reserve_in |-> ri, reserve_out |-> ro] :
        a \in AmountsIn, b \in AmountsIn, ri \in ReservesIn, ro \in ReservesOut}

SwapPairArgs == {p \in AmountPairs : BLeq(Value(p.amount_in), Value(p.larger))}

InitSwap ==
    /\ positions = << >>
    /\ tracked_tokens = {}
    /\ total_trades = 0
    /\ successful_sells = 0
    /\ last \in SwapArgs \cup SwapPairArgs
    /\ ListenerInit
    /\ MonitorInit
    /\ copy_trading_enabled = FALSE

\* calculate_swap_amounts is called
CalculateSwapAmounts ==
    /\ last.op = "swap_args"
    /\ LET amounts == calculate_swap_amounts(Value(last.amount_in),
                                             Value(last.reserve_in),
                                             Value(last.reserve_out))
       IN  last' = [op |-> "calculate_swap_amounts", args |-> last,
                    amount_out |-> amounts[1], min_amount_out |-> amounts[2]]
    /\ UNCHANGED <<store, listener, monitor>>

\* calculate_swap_amounts is called twice, with two amounts
CalculateSwapAmountsTwice ==
    /\ last.op = "swap_pair_args"
    /\ last' = [op |-> "calculate_swap_amounts_twice", args |-> last,
                first |-> calculate_swap_amounts(Value(last.amount_in),
                                                 Value(last.reserve_in),
                                                 Value(last.reserve_out)),
                second |-> calculate_swap_amounts(Value(last.larger),
                                                  Value(last.reserve_in),
                                                  Value(last.reserve_out))]
    /\ UNCHANGED <<store, listener, monitor>>

NextSwap == CalculateSwapAmounts \/ CalculateSwapAmountsTwice

SpecSwap == InitSwap /\ [][NextSwap]_vars

(***************************************************************************)
(* Properties of the swap amounts                                          *)
(***************************************************************************)
\* floor(amount_in * 997 * reserve_out / (reserve_in * 1000 + amount_in * 997))
ExactAmountOut(amount_in, reserve_in, reserve_out) ==
    BDiv(BMul(BMul(amount_in, ToBig(997)), reserve_out),
         BAdd(BMul(reserve_in, ToBig(1000)), BMul(amount_in, ToBig(997))))

\* C26: calculate_swap_amounts returns (0, 0) if an input is zero, and
\* otherwise amount_out = floor(amount_in * 997 * reserve_out /
\* (reserve_in * 1000 + amount_in * 997)) and min_amount_out exactly the
\* integer (amount_out * 995) div 1000.
C26_SwapAmountsExact ==
    last.op = "calculate_swap_amounts" =>
        LET amount_in == Value(last.args.amount_in)
            reserve_in == Value(last.args.reserve_in)
            reserve_out == Value(last.args.reserve_out)
        IN  IF amount_in = << >> \/ reserve_in = << >> \/ reserve_out = << >>
            THEN last.amount_out = << >> /\ last.min_amount_out = << >>
            ELSE /\ last.amount_out = ExactAmountOut(amount_in, reserve_in, reserve_out)
                 /\ last.min_amount_out =
                        BDiv(BMul(last.amount_out, ToBig(995)), ToBig(1000))

\* The call calculate_swap_amounts(1,000,000, 1,000,000,000, 2,000,000,000)
Fixture ==
    /\ last.op = "calculate_swap_amounts"
    /\ last.args.amount_in = <<1, 6>>
    /\ last.args.reserve_in = <<1, 9>>
    /\ last.args.reserve_out = <<2, 9>>

\* C27 as stated: the fixture returns amount_out 1,988,035 and
\* min_amount_out 1,978,095.
C27_FixtureAsStated ==
    Fixture => /\ last.amount_out = ToBig(1988035)
               /\ last.min_amount_out = ToBig(1978095)

\* C27: calculate_swap_amounts(1,000,000, 1,000,000,000, 2,000,000,000)
\* returns amount_out 1,992,013 and min_amount_out 1,982,052.
C27_FixtureValues ==
    Fixture => /\ last.amount_out = ToBig(1992013)
               /\ last.min_amount_out = ToBig(1982052)

\* The fixture was computed.
C27_Witness == Fixture /\ ToInt(last.amount_out) = 1992013

\* C28: for positive reserves calculate_swap_amounts is non-decreasing in
\* amount_in, in amount_out and in min_amount_out, and it returns (0, 0)
\* for amount_in 0.
C28_Monotonic ==
    /\ (/\ last.op = "calculate_swap_amounts_twice"
        /\ Value(last.args.reserve_in) # << >>
        /\ Value(last.args.reserve_out) # << >>) =>
            /\ BLeq(last.first[1], last.second[1])
            /\ BLeq(last.first[2], last.second[2])
    /\ (/\ last.op = "calculate_swap_amounts"
        /\ last.args.amount_in = <<0, 0>>
        /\ Value(last.args.reserve_in) # << >>
        /\ Value(last.args.reserve_out) # << >>) =>
            last.amount_out = << >> /\ last.min_amount_out = << >>

\* Two different amounts into a live pool gave two different outputs.
C28_Witness ==
    /\ last.op = "calculate_swap_amounts_twice"
    /\ last.args.amount_in = <<1, 6>> /\ last.args.larger = <<1, 9>>
    /\ BLess(last.first[1], last.second[1])
    /\ BLess(last.first[2], last.second[2])

(***************************************************************************)
(* solana/raydium.py: the SwapBaseIn instruction                           *)
(***************************************************************************)
TOKEN_PROGRAM_ID == "TokenkegQfeZyiNwAJbNbGKPFXCWuBvf9Ss623VQ5DA"
RAYDIUM_AMM_V4 == "675kPX9MHTjS2zt1qfr1NYHuzeLXfQM9H24wFSUt1Mp8"

\* RaydiumIX.SWAP_BASE_IN
SWAP_BASE_IN == 9

AccountMeta(pubkey, is_signer, is_writable) ==
    [pubkey |-> pubkey, is_signer |-> is_signer, is_writable |-> is_writable]

\* n bytes of v, least significant first
RECURSIVE little_endian(_, _)
little_endian(v, n) ==
    IF n = 0 THEN << >>
    ELSE LET high == BDiv(v, ToBig(256))
         IN  <<ToInt(BSub(v, BMul(high, ToBig(256))))>> \o little_endian(high, n - 1)

\* n bytes of v, most significant first
RECURSIVE big_endian(_, _)
big_endian(v, n) ==
    IF n = 0 THEN << >>
    ELSE LET high == BDiv(v, ToBig(256))
         IN  big_endian(high, n - 1) \o <<ToInt(BSub(v, BMul(high, ToBig(256))))>>

\* Q takes 0 <= v < 2^64; struct.error otherwise
FitsU64(v) == BLess(v, Pow2(64))

\* Mutant: struct.pack(">BQQ", ...)
pack_BQQ_big_endian(b, q1, q2) ==
    IF b < 256 /\ FitsU64(q1) /\ FitsU64(q2)
    THEN [raised |-> FALSE, bytes |-> <<b>> \o big_endian(q1, 8) \o big_endian(q2, 8)]
    ELSE [raised |-> TRUE]

\* struct.pack("<BQQ", b, q1, q2)
pack_BQQ(b, q1, q2) ==
    IF b < 256 /\ FitsU64(q1) /\ FitsU64(q2)
    THEN [raised |-> FALSE, bytes |-> <<b>> \o little_endian(q1, 8) \o little_endian(q2, 8)]
    ELSE [raised |-> TRUE]

\* RaydiumSwapBuilder.build_swap_ix
build_swap_ix(pool_keys, user_wallet, user_source, user_dest, amount_in, min_amount_out) ==
    LET data == pack_BQQ(SWAP_BASE_IN, amount_in, min_amount_out)
        accounts ==
            <<AccountMeta(TOKEN_PROGRAM_ID, FALSE, FALSE),
              AccountMeta(pool_keys.amm_id, FALSE, TRUE),
              AccountMeta(pool_keys.amm_authority, FALSE, FALSE),
              AccountMeta(pool_keys.amm_open_orders, FALSE, TRUE),
              AccountMeta(pool_keys.amm_target_orders, FALSE, TRUE),
              AccountMeta(pool_keys.pool_base_token_account, FALSE, TRUE),
              AccountMeta(pool_keys.pool_quote_token_account, FALSE, TRUE),
              AccountMeta(pool_keys.serum_program_id, FALSE, FALSE),
              AccountMeta(pool_keys.serum_market, FALSE, TRUE),
              AccountMeta(pool_keys.serum_bids, FALSE, TRUE),
              AccountMeta(pool_keys.serum_asks, FALSE, TRUE),
              AccountMeta(pool_keys.serum_event_queue, FALSE, TRUE),
              AccountMeta(pool_keys.serum_coin_vault, FALSE, TRUE),
              AccountMeta(pool_keys.serum_pc_vault, FALSE, TRUE),
              AccountMeta(pool_keys.serum_vault_signer, FALSE, FALSE),
              AccountMeta(user_source, FALSE, TRUE),
              AccountMeta(user_dest, FALSE, TRUE),
              AccountMeta(user_wallet, TRUE, FALSE)>>
    IN  IF data.raised
        THEN [raised |-> TRUE]
        ELSE [raised |-> FALSE, program_id |-> RAYDIUM_AMM_V4,
              accounts |-> accounts, data |-> data.bytes]

\* Pool keys whose accounts are all different
DistinctPoolKeys ==
    [amm_id |-> "amm_id", amm_authority |-> "amm_authority",
     amm_open_orders |-> "amm_open_orders", amm_target_orders |-> "amm_target_orders",
     pool_base_token_account |-> "pool_base_token_account",
     pool_quote_token_account |-> "pool_quote_token_account",
     base_mint |-> "base_mint", quote_mint |-> "quote_mint",
     base_decimals |-> 9, quote_decimals |-> 6,
     serum_program_id |-> "serum_program_id", serum_market |-> "serum_market",
     serum_bids |-> "serum_bids", serum_asks |-> "serum_asks",
     serum_event_queue |-> "serum_event_queue", serum_coin_vault |-> "serum_coin_vault",
     serum_pc_vault |-> "serum_pc_vault", serum_vault_signer |-> "serum_vault_signer"]

\* Pool keys after a fallback scan that found one candidate twice
RepeatedPoolKeys ==
    [DistinctPoolKeys EXCEPT !.serum_event_queue = "serum_asks", !.serum_bids = "serum_asks"]

\* Pool keys whose accounts are all the same
EqualPoolKeys ==
    [amm_id |-> "same", amm_authority |-> "same",
     amm_open_orders |-> "same", amm_target_orders |-> "same",
     pool_base_token_account |-> "same", pool_quote_token_account |-> "same",
     base_mint |-> "same", quote_mint |-> "same",
     base_decimals |-> 0, quote_decimals |-> 0,
     serum_program_id |-> "same", serum_market |-> "same",
     serum_bids |-> "same", serum_asks |-> "same",
     serum_event_queue |-> "same", serum_coin_vault |-> "same",
     serum_pc_vault |-> "same", serum_vault_signer |-> "same"]

PoolKeySets == {DistinctPoolKeys, RepeatedPoolKeys, EqualPoolKeys}
UserSources == {"ata_wsol", "wallet"}
UserDests == {"ata_token", "ata_wsol"}
IxAmounts ==
    {<< >>, ToBig(1), ToBig(256), Big(1, 6), ToBig(1982052),
     BSub(Pow2(64), ToBig(1)), Pow2(64)}

BuildArgs ==
    {[op |-> "build_args", pool_keys |-> pk, user_wallet |-> "wallet",
      user_source |-> us, user_dest |-> ud, amount_in |-> a, min_amount_out |-> m] :
        pk \in PoolKeySets, us \in UserSources, ud \in UserDests,
        a \in IxAmounts, m \in IxAmounts}

InitBuild ==
    /\ positions = << >>
    /\ tracked_tokens = {}
    /\ total_trades = 0
    /\ successful_sells = 0
    /\ last \in BuildArgs
    /\ ListenerInit
    /\ MonitorInit
    /\ copy_trading_enabled = FALSE

\* build_swap_ix is called
BuildSwapIx ==
    /\ last.op = "build_args"
    /\ last' = [op |-> "build_swap_ix", args |-> last,
                ix |-> build_swap_ix(last.pool_keys, last.user_wallet, last.user_source,
                                     last.user_dest, last.amount_in, last.min_amount_out)]
    /\ UNCHANGED <<store, listener, monitor>>

NextBuild == BuildSwapIx

SpecBuild == InitBuild /\ [][NextBuild]_vars

(***************************************************************************)
(* Properties of the swap instruction                                      *)
(***************************************************************************)
\* The keys of the accounts of a swap, in the order the program requires
SwapAccountOrder(args) ==
    <<TOKEN_PROGRAM_ID, args.pool_keys.amm_id, args.pool_keys.amm_authority,
      args.pool_keys.amm_open_orders, args.pool_keys.amm_target_orders,
      args.pool_keys.pool_base_token_account, args.pool_keys.pool_quote_token_account,
      args.pool_keys.serum_program_id, args.pool_keys.serum_market,
      args.pool_keys.serum_bids, args.pool_keys.serum_asks,
      args.pool_keys.serum_event_queue, args.pool_keys.serum_coin_vault,
      args.pool_keys.serum_pc_vault, args.pool_keys.serum_vault_signer,
      args.user_source, args.user_dest, args.user_wallet>>

WritablePositions == {2} \cup (4..7) \cup (9..14) \cup {16, 17}

\* The number whose n bytes from offset from are read least significant first
RECURSIVE ReadLittleEndian(_, _, _)
ReadLittleEndian(data, from, n) ==
    IF n = 0 THEN << >>
    ELSE BAdd(ToBig(data[from + 1]),
              BMul(ToBig(256), ReadLittleEndian(data, from + 1, n - 1)))

\* C29: build_swap_ix returns 18 accounts in the required order, writable
\* exactly at positions 2, 4-7, 9-14, 16, 17, the only signer the user
\* wallet in last position, and 17 bytes of data: the opcode 9, then
\* amount_in and min_amount_out as little-endian 8-byte integers.
C29_SwapInstruction ==
    (last.op = "build_swap_ix" /\ ~last.ix.raised) =>
        /\ Len(last.ix.accounts) = 18
        /\ \A i \in 1..18 :
            /\ last.ix.accounts[i].pubkey = SwapAccountOrder(last.args)[i]
            /\ last.ix.accounts[i].is_writable <=> i \in WritablePositions
            /\ last.ix.accounts[i].is_signer <=> i = 18
        /\ Len(last.ix.data) = 17
        /\ last.ix.data[1] = 9
        /\ \A i \in 1..17 : last.ix.data[i] \in 0..255
        /\ ReadLittleEndian(last.ix.data, 1, 8) = last.args.amount_in
        /\ ReadLittleEndian(last.ix.data, 9, 8) = last.args.min_amount_out

\* An instruction was built for a pool of distinct accounts and two amounts
\* whose bytes are not palindromes.
C29_Witness ==
    /\ last.op = "build_swap_ix"
    /\ ~last.ix.raised
    /\ last.args.pool_keys = DistinctPoolKeys
    /\ last.args.amount_in = Big(1, 6)
    /\ last.args.min_amount_out = ToBig(1982052)
    /\ last.ix.data = <<9, 64, 66, 15, 0, 0, 0, 0, 0, 100, 62, 30, 0, 0, 0, 0, 0>>

(***************************************************************************)
(* core/decoder.py: a text is a sequence of characters.                    *)
(***************************************************************************)
\* The lower-case letter of every upper-case ASCII letter
LowerCase ==
    ("A" :> "a") @@ ("B" :> "b") @@ ("C" :> "c") @@ ("D" :> "d")
    @@ ("E" :> "e") @@ ("F" :> "f") @@ ("G" :> "g") @@ ("H" :> "h")
    @@ ("I" :> "i") @@ ("J" :> "j") @@ ("K" :> "k") @@ ("L" :> "l")
    @@ ("M" :> "m") @@ ("N" :> "n") @@ ("O" :> "o") @@ ("P" :> "p")
    @@ ("Q" :> "q") @@ ("R" :> "r") @@ ("S" :> "s") @@ ("T" :> "t")
    @@ ("U" :> "u") @@ ("V" :> "v") @@ ("W" :> "w") @@ ("X" :> "x")
    @@ ("Y" :> "y") @@ ("Z" :> "z")

\* str.lower()
lower(text) ==
    [i \in DOMAIN text |-> IF text[i] \in DOMAIN LowerCase THEN LowerCase[text[i]] ELSE text[i]]

\* " ".join(logs)
RECURSIVE join(_)
join(logs) ==
    IF logs = << >> THEN << >>
    ELSE IF Len(logs) = 1 THEN logs[1]
    ELSE logs[1] \o <<" ">> \o join(Tail(logs))

\* word occurs in text at position i
OccursAt(word, text, i) ==
    /\ i + Len(word) - 1 <= Len(text)
    /\ \A k \in 1..Len(word) : text[i + k - 1] = word[k]

\* word in text
Contains(text, word) == \E i \in 1..Len(text) : OccursAt(word, text, i)

\* The character classes of the pool pattern
IsSeparator(c) == c \in {":", " ", "\t", "\n"}
IsAlnum(c) ==
    \/ c \in DOMAIN LowerCase
    \/ \E u \in DOMAIN LowerCase : c = LowerCase[u]
    \/ c \in {"0", "1", "2", "3", "4", "5", "6", "7", "8", "9"}

\* The length of the longest run from position i of characters in class
RECURSIVE RunOfSeparators(_, _)
RunOfSeparators(text, i) ==
    IF i <= Len(text) /\ IsSeparator(text[i]) THEN 1 + RunOfSeparators(text, i + 1) ELSE 0

RECURSIVE RunOfAlnum(_, _, _)
RunOfAlnum(text, i, most) ==
    IF most > 0 /\ i <= Len(text) /\ IsAlnum(text[i])
    THEN 1 + RunOfAlnum(text, i + 1, most - 1)
    ELSE 0

Some(value) == [found |-> TRUE, value |-> value]

\* The pattern initialize2[:\s]+([A-Za-z0-9]{32,44}) matches text at i
PoolMatchAt(text, i) ==
    LET word == <<"i", "n", "i", "t", "i", "a", "l", "i", "z", "e", "2">>
        from == i + Len(word)
        gap == RunOfSeparators(text, from)
    IN  /\ OccursAt(word, text, i)
        /\ gap >= 1
        /\ RunOfAlnum(text, from + gap, 44) >= 32

\* re.search(r'initialize2[:\s]+([A-Za-z0-9]{32,44})', text), group 1
pool_match(text) ==
    LET starts == {i \in 1..Len(text) : PoolMatchAt(text, i)}
    IN  IF starts = {} THEN None
        ELSE LET i == CHOOSE j \in starts : \A k \in starts : j <= k
                 from == i + 11 + RunOfSeparators(text, i + 11)
             IN  Some(SubSeq(text, from, from + RunOfAlnum(text, from, 44) - 1))

RaydiumEvent(event_type, pool_address, signature) ==
    [found |-> TRUE, event_type |-> event_type, pool_address |-> pool_address,
     token_address |-> None, signature |-> signature]

SwapWords == {<<"s", "w", "a", "p", "b", "a", "s", "e", "i", "n">>,
              <<"s", "w", "a", "p", "b", "a", "s", "e", "o", "u", "t">>,
              <<"s", "w", "a", "p">>}

\* Mutant: the pool creation is looked for before the error words.
decode_pool_first(logs, signature) ==
    LET log_text == lower(join(logs))
    IN  IF Contains(log_text, <<"i", "n", "i", "t", "i", "a", "l", "i", "z", "e", "2">>)
        THEN RaydiumEvent("NEW_POOL", pool_match(join(logs)), signature)
        ELSE IF Contains(log_text, <<"e", "r", "r", "o", "r">>) \/ Contains(log_text, <<"f", "a", "i", "l", "e", "d">>)
        THEN None
        ELSE IF \E x \in SwapWords : Contains(log_text, x)
        THEN RaydiumEvent("SWAP", None, signature)
        ELSE IF Contains(log_text, <<"d", "e", "p", "o", "s", "i", "t">>)
        THEN RaydiumEvent("ADD_LIQUIDITY", None, signature)
        ELSE IF Contains(log_text, <<"w", "i", "t", "h", "d", "r", "a", "w">>)
        THEN RaydiumEvent("REMOVE_LIQUIDITY", None, signature)
        ELSE None

\* LogDecoder.decode
decode(logs, signature) ==
    LET log_text == lower(join(logs))
    IN  IF Contains(log_text, <<"e", "r", "r", "o", "r">>) \/ Contains(log_text, <<"f", "a", "i", "l", "e", "d">>)
        THEN None
        ELSE IF Contains(log_text, <<"i", "n", "i", "t", "i", "a", "l", "i", "z", "e", "2">>)
        THEN RaydiumEvent("NEW_POOL", pool_match(join(logs)), signature)
        ELSE IF \E x \in SwapWords : Contains(log_text, x)
        THEN RaydiumEvent("SWAP", None, signature)
        ELSE IF Contains(log_text, <<"d", "e", "p", "o", "s", "i", "t">>)
        THEN RaydiumEvent("ADD_LIQUIDITY", None, signature)
        ELSE IF Contains(log_text, <<"w", "i", "t", "h", "d", "r", "a", "w">>)
        THEN RaydiumEvent("REMOVE_LIQUIDITY", None, signature)
        ELSE None

(***************************************************************************)
(* Logs: one line for each kind of word that is present, in either order,  *)
(* and logs in which a word is cut by a line break.                        *)
(***************************************************************************)
Address == [i \in 1..32 |-> "A"]
Prefix == <<"P", "r", "o", "g", "r", "a", "m", " ", "l", "o", "g", ":", " ">>

\* The lines that carry a word of each kind
ErrorLines == {<<"P", "r", "o", "g", "r", "a", "m", " ", "f", "a", "i", "l", "e", "d", " ", "t", "o", " ", "c", "o", "m", "p", "l", "e", "t", "e">>,
               <<"E", "r", "r", "o", "r", ":", " ", "c", "u", "s", "t", "o", "m", " ", "p", "r", "o", "g", "r", "a", "m", " ", "e", "r", "r", "o", "r">>,
               <<"F", "A", "I", "L", "E", "D">>}
PoolLines == {Prefix \o <<"i", "n", "i", "t", "i", "a", "l", "i", "z", "e", "2">>,
              Prefix \o <<"I", "n", "i", "t", "i", "a", "l", "i", "z", "e", "2", ":", " ">> \o Address,
              Prefix \o <<"i", "n", "i", "t", "i", "a", "l", "i", "z", "e", "2", ":", " ">> \o Address}
SwapLines == {Prefix \o <<"s", "w", "a", "p", "B", "a", "s", "e", "I", "n">>,
              Prefix \o <<"S", "w", "a", "p", "B", "a", "s", "e", "O", "u", "t">>,
              Prefix \o <<"s", "w", "a", "p">>}
DepositLines == {Prefix \o <<"D", "e", "p", "o", "s", "i", "t">>}
WithdrawLines == {Prefix \o <<"W", "I", "T", "H", "D", "R", "A", "W">>}

\* No line, or one of the lines
Maybe(lines) == {<< >>} \cup {<<line>> : line \in lines}

RECURSIVE Reverse(_)
Reverse(seq) == IF seq = << >> THEN << >> ELSE Reverse(Tail(seq)) \o <<seq[1]>>

WordLogs ==
    {[op |-> "decode_args", error |-> e, pool |-> p, swap |-> s, deposit |-> d,
      withdraw |-> w, logs |-> IF r THEN Reverse(e \o p \o s \o d \o w)
                                    ELSE e \o p \o s \o d \o w] :
        e \in Maybe(ErrorLines), p \in Maybe(PoolLines), s \in Maybe(SwapLines),
        d \in Maybe(DepositLines), w \in Maybe(WithdrawLines), r \in BOOLEAN}

\* Logs in which every word is cut by a line break
CutLogs ==
    {[op |-> "decode_args", error |-> << >>, pool |-> << >>, swap |-> << >>,
      deposit |-> << >>, withdraw |-> << >>, logs |-> logs] :
        logs \in {<<<<"i", "n", "i", "t", "i", "a", "l">>, <<"i", "z", "e", "2">>>>,
                  <<<<"e", "r", "r">>, <<"o", "r">>, <<"f", "a", "i", "l">>, <<"e", "d">>>>,
                  <<<<"P", "r", "o", "g", "r", "a", "m", " ", "l", "o", "g", ":", " ", "s", "w">>, <<"a", "p">>>>,
                  <<<<"d", "e", "p", "o">>, <<"s", "i", "t", " ", "w", "i", "t", "h">>, <<"d", "r", "a", "w">>>>,
                  <<Prefix \o <<"r", "a", "y", "_", "l", "o", "g">>>>}}

DecodeArgs == WordLogs \cup CutLogs

InitDecode ==
    /\ positions = << >>
    /\ tracked_tokens = {}
    /\ total_trades = 0
    /\ successful_sells = 0
    /\ last \in DecodeArgs
    /\ ListenerInit
    /\ MonitorInit
    /\ copy_trading_enabled = FALSE

\* LogDecoder.decode is called
Decode ==
    /\ last.op = "decode_args"
    /\ last' = [op |-> "decode", args |-> last, event |-> decode(last.logs, "sig1")]
    /\ UNCHANGED <<store, listener, monitor>>

NextDecode == Decode

SpecDecode == InitDecode /\ [][NextDecode]_vars

(***************************************************************************)
(* Properties of the decoder                                               *)
(***************************************************************************)
\* The event type of the first rule whose word is in the logs
FirstRule(args) ==
    IF args.error # << >> THEN "none"
    ELSE IF args.pool # << >> THEN "NEW_POOL"
    ELSE IF args.swap # << >> THEN "SWAP"
    ELSE IF args.deposit # << >> THEN "ADD_LIQUIDITY"
    ELSE IF args.withdraw # << >> THEN "REMOVE_LIQUIDITY"
    ELSE "none"

EventType(event) == IF event.found THEN event.event_type ELSE "none"

\* C30: decode classifies by strict precedence over case-insensitive
\* substring tests of the joined text: "error" or "failed" gives no event
\* whatever else is there, else "initialize2" NEW_POOL, else a swap word
\* SWAP, else "deposit" ADD_LIQUIDITY, else "withdraw" REMOVE_LIQUIDITY,
\* else no event.
C30_DecodePrecedence ==
    last.op = "decode" => EventType(last.event) = FirstRule(last.args)

\* Logs with an error line, a pool creation line and a swap line gave no
\* event.
C30_Witness ==
    /\ last.op = "decode"
    /\ last.args.error # << >>
    /\ last.args.pool # << >>
    /\ last.args.swap # << >>
    /\ ~last.event.found

(***************************************************************************)
(* Properties of the subscribe phase                                       *)
(***************************************************************************)
\* The step is a _reconnect during which the network and the server did env
ReconnectWith(env) ==
    /\ ReconnectStep
    /\ \/ pc = "loop" /\ reconnect(env, "recv", "handler")
       \/ pc = "handler" /\ reconnect(env, "loop", "raised")

\* The keys of the requests of one connect, in order
RequestKeys == <<"raydium">> \o (IF copy_trading_enabled THEN Wallets ELSE << >>)

\* The server acknowledged request k of the connect
Acknowledged(env, k) ==
    IF k = 1 THEN env.ray = "ack" ELSE env.wal[k - 1] = "ack"

\* C31: in every connect the requests are the log stream, then each watched
\* wallet in list order (wallets only with copy-trading enabled), each sent
\* only after a reply to the one before was read; and whatever notifications
\* come between the acknowledgements, the id stored for the log stream and
\* for each wallet is the id of the acknowledgement of that request.
C31_SubscribeInOrder ==
    [][\A env \in ConnectEnvs :
          (ReconnectWith(env) /\ conns' # conns) =>
              LET c == connect(ws_url, reconnect_count + 1, 1, env).c
              IN  /\ Len(c.sent) <= Len(RequestKeys)
                  /\ \A k \in 1..Len(c.sent) :
                        /\ c.sent[k].key = RequestKeys[k]
                        /\ k < Len(c.sent) => c.sent[k].got \in {"ack", "error"}
                        /\ Acknowledged(env, k) =>
                              /\ RequestKeys[k] \in DOMAIN subscriptions'
                              /\ subscriptions'[RequestKeys[k]] = SubId(env.first, k - 1)]_vars

(***************************************************************************)
(* core/executor.py: _confirm_transaction step by step.  Time is counted   *)
(* in pauses of 0.5 s; the task is at last.at:                             *)
(*   "test"      at the while test (line 247)                              *)
(*   "poll"      awaiting get_signature_statuses (line 249)                *)
(*   "sleep"     in asyncio.sleep(0.5) (line 260)                          *)
(*   "returned"  _confirm_transaction has returned                         *)
(* observed is what the last status read gave: "null" (no status yet),     *)
(* "raise" (the read failed), "ok" or "err"; status is what the polling    *)
(* ended with: "ok", "err" or "timeout".                                   *)
(***************************************************************************)
\* timeout = 30 seconds, in pauses
ConfirmTimeout == 60

\* The pauses a status read can take
Latencies == {0, 2}

StatusReads == {"null", "raise", "ok", "err"}

Polling(token, at, elapsed, polls, observed, status) ==
    [op |-> "confirm", token |-> token, at |-> at, elapsed |-> elapsed,
     polls |-> polls, observed |-> observed, status |-> status]

\* Mutant: a status with an error is polled again.
confirm_poll_ignores_err(answer) ==
    IF answer = "ok" THEN "ok" ELSE "again"

\* Lines 248-258: what one status read leads to
confirm_poll(answer) ==
    IF answer \in {"null", "raise"} THEN "again"
    ELSE IF answer = "ok" THEN "ok"
    ELSE "err"

\* _send_transaction has sent the swap of a buy: _confirm_transaction starts
SendTransaction(token) ==
    /\ last.op = "init"
    /\ last' = Polling(token, "test", 0, 0, "none", "none")
    /\ UNCHANGED <<store, listener, monitor>>

\* line 247: the while test; lines 262-263 when the window has elapsed
ConfirmTest ==
    /\ last.op = "confirm" /\ last.at = "test"
    /\ IF last.elapsed < ConfirmTimeout
       THEN last' = [last EXCEPT !.at = "poll"]
       ELSE last' = [last EXCEPT !.at = "returned", !.status = "timeout"]
    /\ UNCHANGED <<store, listener, monitor>>

\* lines 248-258: one status read
ConfirmPoll ==
    /\ last.op = "confirm" /\ last.at = "poll"
    /\ \E answer \in StatusReads, latency \in Latencies :
          last' = [last EXCEPT
                      !.at = IF confirm_poll(answer) = "again" THEN "sleep"
                             ELSE "returned",
                      !.status = IF confirm_poll(answer) = "again" THEN "none"
                                 ELSE confirm_poll(answer),
                      !.elapsed = @ + latency, !.polls = @ + 1,
                      !.observed = answer]
    /\ UNCHANGED <<store, listener, monitor>>

\* line 260: asyncio.sleep(0.5)
ConfirmSleep ==
    /\ last.op = "confirm" /\ last.at = "sleep"
    /\ last' = [last EXCEPT !.at = "test", !.elapsed = @ + 1]
    /\ UNCHANGED <<store, listener, monitor>>

\* _send_transaction returns to _execute_buy, which returns
ConfirmReturn ==
    /\ last.op = "confirm" /\ last.at = "returned"
    /\ \E price \in IF last.status = "ok" THEN Prices ELSE {Frac(0)} :
          LET env == EnvRec(TRUE, TRUE, FeeBufferLamports + 1, <<1, 3>>, TRUE,
                            "ok", last.status, price)
          IN  execute_buy(last.token, 1, env,
                          [op |-> "buy", token |-> last.token, ok |-> FALSE,
                           failure |-> BuyFailure(1, env),
                           elapsed |-> last.elapsed, polls |-> last.polls,
                           observed |-> last.observed])
    /\ UNCHANGED <<listener, monitor>>

ConfirmStep == ConfirmTest \/ ConfirmPoll \/ ConfirmSleep

NextConfirm ==
    \/ \E token \in Tokens : SendTransaction(token)
    \/ ConfirmStep
    \/ ConfirmReturn

\* The task is scheduled, and its awaits return or raise.
SpecConfirm == Init /\ [][NextConfirm]_vars /\ WF_vars(ConfirmStep)

(***************************************************************************)
(* Properties of the confirmation polling                                  *)
(***************************************************************************)
ConfirmReturned == last.op = "confirm" /\ last.at = "returned"

\* While polling: a read starts inside the window only, there are no more
\* reads than pauses in the window, and a status ends the polling.
PollingBounded ==
    last.op = "confirm" =>
        /\ last.polls <= ConfirmTimeout
        /\ last.polls <= last.elapsed + (IF last.at \in {"sleep", "returned"} THEN 1 ELSE 0)
        /\ last.at = "poll" => last.elapsed < ConfirmTimeout
        /\ last.at # "returned" => last.observed \in {"none", "null", "raise"}
        /\ last.at = "returned" =>
              /\ last.status = "ok" <=> last.observed = "ok"
              /\ last.status = "err" <=> last.observed = "err"
              /\ last.status = "timeout" <=>
                    last.observed \in {"none", "null", "raise"}
              /\ last.status = "timeout" => last.elapsed >= ConfirmTimeout

\* After the return: success exactly for a status without error, failure at
\* once for a status with an error, failure without a status only after the
\* window, and a failed buy registers nothing.
PollingResult ==
    (last.op = "buy" /\ "observed" \in DOMAIN last) =>
        /\ last.ok <=> last.observed = "ok"
        /\ last.polls <= ConfirmTimeout
        /\ last.observed \in {"none", "null", "raise"} =>
              /\ last.elapsed >= ConfirmTimeout
              /\ last.failure = "timeout"
        /\ last.observed = "err" => last.failure = "onchain"
        /\ last.ok <=> has_open_position(last.token)
        /\ ~last.ok => positions = << >> /\ total_trades = 0

\* C32: confirmation polling always terminates and is bounded by its window:
\* it polls with a fixed pause, returns success at a status without error,
\* failure at a status with an error, polls again after a failed read, and
\* returns failure once the window has elapsed; a timeout fails the buy.
C32_ConfirmTerminates ==
    /\ [](PollingBounded /\ PollingResult)
    /\ (last.op = "confirm") ~> ConfirmReturned

\* The window elapsed after sixty reads without a status, the last of them
\* failed, and the buy failed.
C32_Witness ==
    /\ last.op = "buy" /\ ~last.ok
    /\ last.failure = "timeout"
    /\ last.polls = ConfirmTimeout
    /\ last.observed = "raise"

(***************************************************************************)
(* The ingestion task and the monitor task side by side (main.py).  The    *)
(* listener awaits its callbacks inside listen(), so the ingestion task    *)
(* handles one NEW_POOL event at a time; here pc is IngestAt(at, token):   *)
(*   "loop"     in listen(), no event in hand                              *)
(*   "analyze"  on_new_pool awaits quick_check (strategy.py line 69)       *)
(*   "buy"      _execute_buy awaits its collaborators (executor.py 92-156) *)
(***************************************************************************)
IngestAt(at, token) == [at |-> at, token |-> token]

\* run() has restored the open positions, connected and created both tasks
InitRace ==
    /\ \E restored \in SUBSET {"T1"} :
          /\ positions = [t \in restored |-> Position(Frac(1), "open")]
          /\ tracked_tokens = restored
    /\ total_trades = 0
    /\ successful_sells = 0
    /\ last = Call("init", "T1", FALSE, "none")
    /\ running = TRUE
    /\ ws_url = "primary"
    /\ websocket = "open"
    /\ reconnect_count = 0
    /\ subscriptions = Put(<< >>, "raydium", 1)
    /\ pc = IngestAt("loop", "none")
    /\ inbox = << >>
    /\ conns = 1
    /\ server_subscribed = TRUE
    /\ next_sig = 1
    /\ read = {}
    /\ calls = << >>
    /\ delays = << >>
    /\ attempts = <<"primary">>
    /\ copy_trading_enabled = FALSE
    /\ bot_running = TRUE
    /\ mpc = MonitorAt("test", "none", NoPrice)
    /\ todo = {}

\* _on_raydium_event for a NEW_POOL event of token: on_new_pool up to its
\* await of quick_check
IngestNewPool(token) ==
    /\ pc.at = "loop"
    /\ total_trades < MaxTrades
    /\ IF on_new_pool_analyzes(StrategyEnabled, token)
       THEN pc' = IngestAt("analyze", token)
       ELSE pc' = pc
    /\ UNCHANGED <<store, last, monitor, copy_trading_enabled, running, ws_url,
                   websocket, reconnect_count, subscriptions, inbox, conns,
                   server_subscribed, next_sig, read, calls, delays, attempts>>

\* quick_check returns; a BUY signal goes to _execute and to _execute_buy
IngestAnalyzed ==
    /\ pc.at = "analyze"
    /\ \E is_safe \in BOOLEAN :
          IF on_new_pool_signal(StrategyEnabled, Frac(1), pc.token, "P1",
                                is_safe).action = "BUY"
          THEN pc' = IngestAt("buy", pc.token)
          ELSE pc' = IngestAt("loop", "none")
    /\ UNCHANGED <<store, last, monitor, copy_trading_enabled, running, ws_url,
                   websocket, reconnect_count, subscriptions, inbox, conns,
                   server_subscribed, next_sig, read, calls, delays, attempts>>

\* The answers of one buy that differ in what the buy does to the store: no
\* pool, no confirmation, or a confirmed swap with or without a price
RaceEnvs ==
    {EnvRec(FALSE, FALSE, FeeBufferLamports, <<0, 0>>, FALSE, "error", "timeout", Frac(0)),
     EnvRec(TRUE, TRUE, FeeBufferLamports + 1, <<1, 3>>, TRUE, "ok", "timeout", Frac(0))}
    \cup {EnvRec(TRUE, TRUE, FeeBufferLamports + 1, <<1, 3>>, TRUE, "ok", "ok", p) :
             p \in {Frac(0), Frac(1)}}

\* _execute_buy gets its answers and returns; was_open: the token's stored
\* position was OPEN when the flow reached add_position
IngestBuy ==
    /\ pc.at = "buy"
    /\ \E env \in RaceEnvs :
          execute_buy(pc.token, 1, env,
                      [op |-> "buy", token |-> pc.token, ok |-> FALSE,
                       failure |-> BuyFailure(1, env),
                       was_open |-> has_open_position(pc.token)])
    /\ pc' = IngestAt("loop", "none")
    /\ UNCHANGED <<monitor, copy_trading_enabled, running, ws_url,
                   websocket, reconnect_count, subscriptions, inbox, conns,
                   server_subscribed, next_sig, read, calls, delays, attempts>>

IngestStep ==
    \/ \E token \in Tokens : IngestNewPool(token)
    \/ IngestAnalyzed
    \/ IngestBuy

NextRace == IngestStep \/ MonitorStep

SpecRace == InitRace /\ [][NextRace]_vars

(***************************************************************************)
(* Properties of the two tasks                                             *)
(***************************************************************************)
\* C33: under any interleaving of the ingestion task and the monitor task,
\* with BUY signals coming from the strategy only, add_position is never
\* called for a token whose stored position is OPEN at that moment.
C33_NoBuyOverOpen ==
    [][total_trades' # total_trades =>
           /\ last'.op = "buy" /\ last'.ok
           /\ ~has_open_position(last'.token)
           /\ ~last'.was_open]_vars

\* A position the monitor had closed while the ingestion task was idle was
\* bought again, and one the monitor closed during a buy of the other token.
C33_Witness ==
    /\ last.op = "buy" /\ last.ok
    /\ successful_sells >= 1
    /\ total_trades = 2
    /\ \E token \in Tokens : token # last.token /\ token \in DOMAIN positions
                                /\ positions[token].status = "closed"

(***************************************************************************)
(* Properties of the analyzer's report on short account data               *)
(***************************************************************************)
\* C34: quick_check reports is_safe only when every enabled authority check
\* was determined from the account data: a safe report has no undetermined
\* mint flag while the mint check is enabled and no undetermined freeze flag
\* while the freeze check is enabled.
C34_SafeOnlyWhenDetermined ==
    (last.op = "quick_check" /\ last.report.is_safe) =>
        /\ last.args.filters.check_mint_authority =>
              last.report.has_mint_authority # "none"
        /\ last.args.filters.check_freeze_authority =>
              last.report.has_freeze_authority # "none"

(***************************************************************************)
(* Properties of the listener after stop()                                 *)
(***************************************************************************)
\* stop() has cleared running and closed the connection of a started listener
Stopped == ~running /\ pc # "idle" /\ websocket = "closed"

\* C35: after stop() has cleared the running flag and closed the connection,
\* the listener makes no connection attempt, sends no subscription request
\* and the connection stays closed.
C35_StoppedStaysClosed ==
    [][Stopped => /\ delays' = delays
                  /\ conns' = conns
                  /\ websocket' = "closed"]_vars

(***************************************************************************)
(* Properties of the subscription table across connections                 *)
(***************************************************************************)
\* The step is a _reconnect whose connect() opened a connection and returned
CompletedConnect(env) ==
    /\ ReconnectWith(env)
    /\ conns' # conns
    /\ ~connect(ws_url, reconnect_count + 1, 1, env).raised

\* C36: after every completed connect, every id in the subscription table was
\* stored from an acknowledgement read on the connection just opened: no key
\* keeps an id obtained on an earlier connection.
C36_TableOfCurrentConnection ==
    [][\A env \in ConnectEnvs :
          CompletedConnect(env) =>
              LET c == connect(ws_url, reconnect_count + 1, 1, env).c
              IN  \A key \in DOMAIN subscriptions' :
                     \E k \in 1..Len(c.sent) :
                        /\ c.sent[k].key = key
                        /\ c.sent[k].got = "ack"]_vars

(***************************************************************************)
(* Bounds of the swap amounts                                              *)
(***************************************************************************)
\* calculate_swap_amounts was called with three positive amounts
PositiveSwap ==
    /\ last.op = "calculate_swap_amounts"
    /\ Value(last.args.amount_in) # << >>
    /\ Value(last.args.reserve_in) # << >>
    /\ Value(last.args.reserve_out) # << >>

\* C37: for positive amount_in, reserve_in and reserve_out,
\* calculate_swap_amounts returns 0 <= min_amount_out <= amount_out <
\* reserve_out (amounts are naturals, so 0 <= min_amount_out by construction).
C37_AmountsBounded ==
    PositiveSwap =>
        /\ BLeq(<< >>, last.min_amount_out)
        /\ BLeq(last.min_amount_out, last.amount_out)
        /\ BLess(last.amount_out, Value(last.args.reserve_out))

\* 9 * 10^18 paid into a pool of 1 : 10^19 took all but a few units of the
\* output reserve; the output is above 2^53, where the conversion to a
\* double rounds, and the guard is strictly below the output.
C37_Witness ==
    /\ PositiveSwap
    /\ last.args.amount_in = <<9, 18>>
    /\ last.args.reserve_in = <<1, 0>>
    /\ last.args.reserve_out = <<1, 19>>
    /\ BLess(Pow2(53), last.amount_out)
    /\ BLess(last.min_amount_out, last.amount_out)

(***************************************************************************)
(* Properties of the sell flow's exit price                                *)
(***************************************************************************)
\* C39: the sell flow never closes a position with a non-positive exit price:
\* a sell that returned True closed the position at a positive price, and
\* after a sell whose price read gave 0 the position is still OPEN.
C39_NoCloseAtZeroPrice ==
    /\ (last.op = "sell" /\ last.ok) =>
          /\ Positive(last.price)
          /\ Positive(positions[last.token].exit_price)
    /\ (last.op = "sell" /\ last.price = Frac(0)) =>
          has_open_position(last.token)

(***************************************************************************)
(* Properties of the monitor task after shutdown()                         *)
(***************************************************************************)
\* C40: once shutdown() has cleared running, the monitor task changes nothing
\* in the position store: no position is price-updated or closed, also when
\* shutdown() came while the task was iterating the open positions.
C40_NoStoreChangeAfterShutdown ==
    [][ShutDown => /\ positions' = positions
                   /\ tracked_tokens' = tracked_tokens
                   /\ successful_sells' = successful_sells]_vars

(***************************************************************************)
(* The monitor task with the exit rules (main.py 138-157, strategy.py      *)
(* 154-196): config.exit has its defaults, and every position here has     *)
(* been held for max_hold_time_min, so its hold time stays at or above the *)
(* cap.                                                                    *)
(***************************************************************************)
\* config.exit: take profit 50 percent, stop loss 10 percent, 60 minutes
DefaultExit == ExitConfig(50, 10, 60)

\* Minutes the positions have been held
HeldFor == DefaultExit.max_hold_time_min

\* run() after _restore_positions: both tokens restored OPEN with the entry
\* price of their row (0.0 for a missing one), the monitor task created
InitHold ==
    /\ \E entry \in [Tokens -> Prices] :
          positions = [t \in Tokens |-> Position(entry[t], "open")]
    /\ tracked_tokens = Tokens
    /\ total_trades = 0
    /\ successful_sells = 0
    /\ last = Call("init", "T1", FALSE, "none")
    /\ ListenerInit
    /\ copy_trading_enabled = FALSE
    /\ bot_running = TRUE
    /\ mpc = MonitorAt("test", "none", NoPrice)
    /\ todo = {}

\* lines 148-151: check_exit_conditions on the price just read; a signal is
\* executed, and an exception of _execute ends the for loop (155-157)
MonitorCheckExit ==
    /\ mpc.at = "exit"
    /\ LET signal == check_exit_conditions(mpc.token, positions[mpc.token],
                                           mpc.price, DefaultExit, HeldFor)
       IN  IF signal # NoSignal
           THEN /\ \E current_price \in Prices :
                      execute_sell(mpc.token, signal.reason, current_price,
                                   SellCall(mpc.token, signal.reason, current_price))
                /\ \E raised \in BOOLEAN :
                      IF raised
                      THEN mpc' = MonitorAt("test", "none", NoPrice) /\ todo' = {}
                      ELSE mpc' = MonitorAt("body", "none", NoPrice) /\ UNCHANGED todo
           ELSE /\ mpc' = MonitorAt("body", "none", NoPrice)
                /\ UNCHANGED <<store, last, todo>>
    /\ UNCHANGED <<listener, bot_running>>

HoldStep ==
    \/ MonitorTest
    \/ \E token \in Tokens : MonitorVisit(token)
    \/ MonitorCheckExit
    \/ MonitorSleep

NextHold == HoldStep

\* The monitor task is scheduled fairly, and its awaits return or raise.
SpecHold == InitHold /\ [][NextHold]_vars /\ WF_vars(HoldStep)

(***************************************************************************)
(* Properties of the hold-time cap                                         *)
(***************************************************************************)
\* C38: with max_hold_time_min > 0 and the monitor loop running fairly, every
\* OPEN position whose hold time has reached the cap is eventually closed,
\* whatever the price feed returns and whatever its entry price is.
C38_HeldPositionClosed ==
    \A token \in Tokens :
        (DefaultExit.max_hold_time_min > 0 /\ has_open_position(token))
            ~> ~has_open_position(token)

=============================================================================
